---- MODULE Spec2Model ----
(***************************************************************************)
(* A model of the wiring engine of AutoRouting: the graph model            *)
(* (src/backend/models.py: Conduit, CircuitSystem) and the algorithms      *)
(* working on it (src/backend/algorithms.py: WiringCalculator and          *)
(* TopologyGenerator).                                                     *)
(*                                                                         *)
(* Python dicts keep insertion order and the algorithms iterate them, so   *)
(* nodes, conduits, units and circuits are sequences of records keyed by   *)
(* their id field.  Currents and coordinates are integers; node positions  *)
(* are drawn so that every Euclidean distance is an integer.               *)
(***************************************************************************)
EXTENDS Integers, Sequences, FiniteSets, TLC

VARIABLES
    nodes,                  \* CircuitSystem.nodes: id -> Node
    conduits,               \* CircuitSystem.conduits: id -> Conduit
    units,                  \* CircuitSystem.units: id -> Unit
    circuits,               \* CircuitSystem.circuits: id -> Circuit
    adj,                    \* CircuitSystem.adj: node id -> neighbor id -> conduit id
    distribution_box_id,    \* CircuitSystem.distribution_box_id
    distribution_box_ids,   \* CircuitSystem.distribution_box_ids
    last,                   \* the last operation called and how it ended
    history                 \* what an observer of the calculations remembers

vars == <<nodes, conduits, units, circuits, adj, distribution_box_id,
          distribution_box_ids, last, history>>

----------------------------------------------------------------------------
(* Values *)

\* Python's None, for the Optional[str] fields
None == "None"

DISTRIBUTION_BOX == "DISTRIBUTION_BOX"
SWITCH == "SWITCH"
LIGHT == "LIGHT"
SOCKET == "SOCKET"
JUNCTION_BOX == "JUNCTION_BOX"

WT_N == "N"
WT_PE == "PE"
L_UNIT == "L_UNIT"
L_CONTROL == "L_CONTROL"
L_POWER == "L_POWER"

\* Unit.unit_type: the two strings the code compares with
CONTROLLED == "controlled"
UNCONTROLLED == "uncontrolled"

\* CircuitSystem.circuit_id, the default circuit tag
DefaultCircuitId == "R001"

----------------------------------------------------------------------------
(* Ordered dicts: sequences of records with an id field *)

EmptyMap == [k \in {} |-> None]

Upd(f, k, v) == [y \in (DOMAIN f) \cup {k} |-> IF y = k THEN v ELSE f[y]]

Drop(f, k) == [y \in (DOMAIN f) \ {k} |-> f[y]]

Keys(d) == {d[i].id : i \in DOMAIN d}

Values(d) == {d[i] : i \in DOMAIN d}

Has(d, k) == \E i \in DOMAIN d : d[i].id = k

IndexOf(d, k) == CHOOSE i \in DOMAIN d : d[i].id = k

Get(d, k) == d[IndexOf(d, k)]

\* d[k] = r: an existing key keeps its place, a new key goes last
Put(d, r) == IF Has(d, r.id) THEN [d EXCEPT ![IndexOf(d, r.id)] = r] ELSE Append(d, r)

\* del d[k]
Del(d, k) == SelectSeq(d, LAMBDA r : r.id # k)

Range(s) == {s[i] : i \in DOMAIN s}

\* list.remove(x): the first occurrence only
RemoveFirst(s, x) ==
    IF x \notin Range(s) THEN s
    ELSE LET i == CHOOSE j \in DOMAIN s : s[j] = x /\ \A k \in 1..(j - 1) : s[k] # x
         IN [j \in 1..(Len(s) - 1) |-> IF j < i THEN s[j] ELSE s[j + 1]]

\* [new if i == old else i for i in s]
Renamed(s, old, new) == [i \in DOMAIN s |-> IF s[i] = old THEN new ELSE s[i]]

\* math.sqrt on the perfect squares the positions produce
Sqrt(n) == CHOOSE r \in 0..n : r * r <= n /\ (r + 1) * (r + 1) > n

\* math.sqrt((x1-x2)**2 + (y1-y2)**2), math.hypot
Hypot(a, b) == Sqrt((a.x - b.x) * (a.x - b.x) + (a.y - b.y) * (a.y - b.y))

----------------------------------------------------------------------------
(* Records *)

Node(id, node_type, x, y, rated_current) ==
    [id |-> id, node_type |-> node_type, x |-> x, y |-> y, rated_current |-> rated_current]

Wire(wire_type, unit_id, circuit_id, current) ==
    [wire_type |-> wire_type, unit_id |-> unit_id, circuit_id |-> circuit_id, current |-> current]

Conduit(id, start_node_id, end_node_id, circuit_id) ==
    [id |-> id, start_node_id |-> start_node_id, end_node_id |-> end_node_id,
     length |-> 0, wires |-> <<>>, circuit_id |-> circuit_id]

Unit(id, unit_type, member_node_ids, control_switch_id) ==
    [id |-> id, unit_type |-> unit_type, member_node_ids |-> member_node_ids,
     control_switch_id |-> control_switch_id]

Circuit(id, distribution_box_id_, member_node_ids) ==
    [id |-> id, distribution_box_id |-> distribution_box_id_, member_node_ids |-> member_node_ids]

\* CircuitSystem.__init__
EmptySystem ==
    [nodes |-> <<>>, conduits |-> <<>>, units |-> <<>>, circuits |-> <<>>,
     adj |-> EmptyMap, distribution_box_id |-> None, distribution_box_ids |-> <<>>]

\* The system as one value, for the operations below
Sys ==
    [nodes |-> nodes, conduits |-> conduits, units |-> units, circuits |-> circuits,
     adj |-> adj, distribution_box_id |-> distribution_box_id,
     distribution_box_ids |-> distribution_box_ids]

----------------------------------------------------------------------------
(* Conduit.add_wire *)

\* Python truthiness of an Optional[str]: neither None nor the empty string
Truthy(v) == v # None /\ v # ""

\* a or b
Or(a, b) == IF Truthy(a) THEN a ELSE b

\* add_wire without the conflict check: the wire is appended whatever the
\* conduit is bound to
add_wire_unchecked(c, wire_type, unit_id, circuit_id) ==
    LET bound == IF Truthy(circuit_id) /\ c.circuit_id = None THEN circuit_id ELSE c.circuit_id
    IN [c |-> [c EXCEPT !.circuit_id = bound,
                        !.wires = Append(@, Wire(wire_type, unit_id, Or(circuit_id, bound), 0))],
        raised |-> FALSE]

\* add_wire(wire: WireType, unit_id=..., circuit_id=...): binds the conduit to
\* circuit_id or refuses a different circuit, then appends one wire
add_wire(c, wire_type, unit_id, circuit_id) ==
    LET conflict == Truthy(circuit_id) /\ c.circuit_id # None /\ c.circuit_id # circuit_id
        bound == IF Truthy(circuit_id) /\ c.circuit_id = None THEN circuit_id ELSE c.circuit_id
    IN IF conflict
       THEN [c |-> c, raised |-> TRUE]
       ELSE [c |-> [c EXCEPT !.circuit_id = bound,
                             !.wires = Append(@, Wire(wire_type, unit_id, Or(circuit_id, bound), 0))],
             raised |-> FALSE]

\* add_wire(wire: Wire, circuit_id=...): the same binding block, but the wire
\* keeps the circuit id it carries, whatever circuit_id says.  Step 1 passes
\* no circuit_id, so for it the binding block is skipped altogether.
add_wire_object(c, wire, circuit_id) ==
    LET conflict == Truthy(circuit_id) /\ c.circuit_id # None /\ c.circuit_id # circuit_id
        bound == IF Truthy(circuit_id) /\ c.circuit_id = None THEN circuit_id ELSE c.circuit_id
    IN IF conflict
       THEN [c |-> c, raised |-> TRUE]
       ELSE [c |-> [c EXCEPT !.circuit_id = bound,
                             !.wires = Append(@, Wire(wire.wire_type, wire.unit_id,
                                                      Or(wire.circuit_id, bound), wire.current))],
             raised |-> FALSE]

----------------------------------------------------------------------------
(* CircuitSystem *)

IsNode(S, nid) == Has(S.nodes, nid)

add_node(S, node) ==
    LET S1 == [S EXCEPT !.nodes = Put(@, node)]
        S2 == IF node.node_type = DISTRIBUTION_BOX
              THEN [S1 EXCEPT !.distribution_box_ids = Append(@, node.id),
                              !.distribution_box_id = IF @ = None THEN node.id ELSE @]
              ELSE S1
    IN IF node.id \in DOMAIN S2.adj THEN S2 ELSE [S2 EXCEPT !.adj = Upd(@, node.id, EmptyMap)]

add_conduit(S, conduit) ==
    LET u == conduit.start_node_id
        v == conduit.end_node_id
        a1 == IF u \in DOMAIN S.adj THEN S.adj ELSE Upd(S.adj, u, EmptyMap)
        a2 == IF v \in DOMAIN a1 THEN a1 ELSE Upd(a1, v, EmptyMap)
        a3 == [a2 EXCEPT ![u] = Upd(@, v, conduit.id)]
        a4 == [a3 EXCEPT ![v] = Upd(@, u, conduit.id)]
        len == IF IsNode(S, u) /\ IsNode(S, v)
               THEN Hypot(Get(S.nodes, u), Get(S.nodes, v))
               ELSE conduit.length
    IN [S EXCEPT !.conduits = Put(@, [conduit EXCEPT !.length = len]), !.adj = a4]

add_unit(S, unit) == [S EXCEPT !.units = Put(@, unit)]

\* The uniqueness check of add_circuit and assign_node_to_circuit: a node that
\* is no distribution box and is a member of another circuit
InOtherCircuit(S, nid, cid) ==
    /\ Get(S.nodes, nid).node_type # DISTRIBUTION_BOX
    /\ \E c \in Values(S.circuits) : c.id # cid /\ nid \in Range(c.member_node_ids)

\* The circuit is stored and its box registered first; the members are checked
\* afterwards, and the ValueError leaves what was stored
add_circuit(S, circuit) ==
    LET S1 == [S EXCEPT !.circuits = Put(@, circuit)]
        S2 == IF circuit.distribution_box_id \notin Range(S1.distribution_box_ids)
              THEN [S1 EXCEPT !.distribution_box_ids = Append(@, circuit.distribution_box_id),
                              !.distribution_box_id =
                                  IF @ = None THEN circuit.distribution_box_id ELSE @]
              ELSE S1
    IN [S |-> S2,
        raised |-> \E nid \in Range(circuit.member_node_ids) :
                       IsNode(S2, nid) /\ InOtherCircuit(S2, nid, circuit.id)]

assign_node_to_circuit(S, node_id, circuit_id) ==
    IF ~Has(S.circuits, circuit_id) \/ ~IsNode(S, node_id)
    THEN [S |-> S, raised |-> FALSE]
    ELSE IF InOtherCircuit(S, node_id, circuit_id)
    THEN [S |-> S, raised |-> TRUE]
    ELSE LET i == IndexOf(S.circuits, circuit_id)
         IN [S |-> IF node_id \in Range(S.circuits[i].member_node_ids)
                   THEN S
                   ELSE [S EXCEPT !.circuits[i].member_node_ids = Append(@, node_id)],
             raised |-> FALSE]

get_conduit(S, u, v) ==
    IF u \in DOMAIN S.adj /\ v \in DOMAIN S.adj[u] /\ Truthy(S.adj[u][v])
    THEN S.adj[u][v]
    ELSE None

\* A clear_wires that also takes the binding from every conduit
clear_wires_unbound(S) ==
    [S EXCEPT !.conduits = [i \in DOMAIN @ |->
                               [@[i] EXCEPT !.wires = <<>>, !.circuit_id = None]]]

\* clear_wires that clears nothing
clear_wires_kept(S) == S

clear_wires(S) ==
    [S EXCEPT !.conduits = [i \in DOMAIN @ |-> [@[i] EXCEPT !.wires = <<>>]]]

remove_conduit(S, conduit_id) ==
    IF ~Has(S.conduits, conduit_id) THEN S
    ELSE LET c == Get(S.conduits, conduit_id)
             u == c.start_node_id
             v == c.end_node_id
             a1 == IF u \in DOMAIN S.adj /\ v \in DOMAIN S.adj[u]
                   THEN [S.adj EXCEPT ![u] = Drop(@, v)] ELSE S.adj
             a2 == IF v \in DOMAIN a1 /\ u \in DOMAIN a1[v]
                   THEN [a1 EXCEPT ![v] = Drop(@, u)] ELSE a1
         IN [S EXCEPT !.adj = a2, !.conduits = Del(@, conduit_id)]

RECURSIVE remove_conduits(_, _)
remove_conduits(S, ids) ==
    IF ids = {} THEN S
    ELSE LET c == CHOOSE x \in ids : TRUE
         IN remove_conduits(remove_conduit(S, c), ids \ {c})

remove_node(S, node_id) ==
    IF ~IsNode(S, node_id) THEN S
    ELSE LET connected == IF node_id \in DOMAIN S.adj
                          THEN {S.adj[node_id][n] : n \in DOMAIN S.adj[node_id]} ELSE {}
             S1 == remove_conduits(S, connected)
         IN [S1 EXCEPT
               !.adj = Drop(@, node_id),
               !.nodes = Del(@, node_id),
               !.distribution_box_id = IF @ = node_id THEN None ELSE @,
               !.units = [i \in DOMAIN @ |->
                            [@[i] EXCEPT
                               !.member_node_ids = RemoveFirst(@, node_id),
                               !.control_switch_id = IF @ = node_id THEN None ELSE @]]]

\* A rename that takes the node out of the node map before its checks
rename_node_id_pop_first(S, old_id, new_id) ==
    IF old_id = new_id THEN [S |-> S, raised |-> FALSE]
    ELSE [S |-> [S EXCEPT !.nodes = Del(@, old_id)],
          raised |-> ~Truthy(new_id) \/ IsNode(S, new_id) \/ ~IsNode(S, old_id)]

\* raised: one of the three ValueErrors; old_id = new_id returns at once
rename_node_id(S, old_id, new_id) ==
    IF ~Truthy(new_id) THEN [S |-> S, raised |-> TRUE]
    ELSE IF old_id = new_id THEN [S |-> S, raised |-> FALSE]
    ELSE IF IsNode(S, new_id) \/ ~IsNode(S, old_id) THEN [S |-> S, raised |-> TRUE]
    ELSE LET node == [Get(S.nodes, old_id) EXCEPT !.id = new_id]
             neighbors == IF old_id \in DOMAIN S.adj THEN S.adj[old_id] ELSE EmptyMap
             a1 == Upd(Drop(S.adj, old_id), new_id, neighbors)
             a2 == [k \in DOMAIN a1 |->
                      IF k \in DOMAIN neighbors /\ old_id \in DOMAIN a1[k]
                      THEN Upd(Drop(a1[k], old_id), new_id, a1[k][old_id])
                      ELSE a1[k]]
         IN [S |-> [S EXCEPT
                      !.nodes = Append(Del(@, old_id), node),
                      !.adj = a2,
                      !.conduits = [i \in DOMAIN @ |->
                                      [@[i] EXCEPT
                                         !.start_node_id = IF @ = old_id THEN new_id ELSE @,
                                         !.end_node_id = IF @ = old_id THEN new_id ELSE @]],
                      !.distribution_box_ids = Renamed(@, old_id, new_id),
                      !.distribution_box_id = IF @ = old_id THEN new_id ELSE @,
                      !.units = [i \in DOMAIN @ |->
                                   [@[i] EXCEPT
                                      !.member_node_ids = Renamed(@, old_id, new_id),
                                      !.control_switch_id = IF @ = old_id THEN new_id ELSE @]],
                      !.circuits = [i \in DOMAIN @ |->
                                      [@[i] EXCEPT !.member_node_ids = Renamed(@, old_id, new_id)]]],
             raised |-> FALSE]

clear_nodes(S) ==
    [S EXCEPT !.nodes = <<>>, !.conduits = <<>>, !.adj = EmptyMap, !.units = <<>>,
              !.distribution_box_id = None, !.distribution_box_ids = <<>>]

clear_conduits(S) ==
    [S EXCEPT !.conduits = <<>>, !.adj = [k \in Keys(S.nodes) |-> EmptyMap]]

----------------------------------------------------------------------------
(* The weighted undirected graph the calculator works on (networkx.Graph):   *)
(* a node set, a set of edges {u, v} and a weight per edge.                  *)

\* float('inf')
INF == 1000000000

\* Paths have fewer edges than this.  Weights are scaled by it and every edge
\* adds one, so that among the shortest paths one with the fewest edges is
\* taken and the walk along it ends even over conduits of length 0.
HopBase == 16

Min(xs) == CHOOSE m \in xs : \A y \in xs : m <= y

EmptyGraph == [nodes |-> {}, edges |-> {}, weight |-> EmptyMap]

\* The weight of the last conduit in cs that joins the two ends of e
RECURSIVE LastLength(_, _, _)
LastLength(cs, e, i) ==
    IF {cs[i].start_node_id, cs[i].end_node_id} = e THEN cs[i].length
    ELSE LastLength(cs, e, i - 1)

\* Graph.add_node for each id, then add_edge(start, end, weight=length) for each
\* conduit in turn: a later conduit between the same two nodes overwrites
GraphOf(ids, cs) ==
    LET es == {{cs[i].start_node_id, cs[i].end_node_id} : i \in DOMAIN cs}
    IN [nodes |-> ids \cup UNION es,
        edges |-> es,
        weight |-> [e \in es |-> LastLength(cs, e, Len(cs))]]

\* WiringCalculator._build_graph
build_graph(S) == GraphOf(Keys(S.nodes), S.conduits)

\* Graph.subgraph(ns): the induced subgraph
Subgraph(G, ns) ==
    LET keep == {e \in G.edges : e \subseteq ns}
    IN [nodes |-> G.nodes \cap ns, edges |-> keep, weight |-> [e \in keep |-> G.weight[e]]]

Neighbors(G, x) == {y \in G.nodes : {x, y} \in G.edges}

Step(G, x, y) == G.weight[{x, y}] * HopBase + 1

\* Bellman-Ford towards t, to the fixed point
RECURSIVE Relax(_, _)
Relax(G, D) ==
    LET D2 == [x \in G.nodes |->
                 Min({D[x]} \cup {D[y] + Step(G, x, y) : y \in {z \in Neighbors(G, x) : D[z] < INF}})]
    IN IF D2 = D THEN D ELSE Relax(G, D2)

DistancesTo(G, t) == Relax(G, [x \in G.nodes |-> IF x = t THEN 0 ELSE INF])

RECURSIVE Walk(_, _, _, _)
Walk(G, D, x, t) ==
    IF x = t THEN <<t>>
    ELSE LET y == CHOOSE z \in Neighbors(G, x) : D[z] < INF /\ D[z] + Step(G, x, z) = D[x]
         IN <<x>> \o Walk(G, D, y, t)

\* The queries below take D = DistancesTo(G, v), so that a loop asking for
\* paths to the same node computes the distances once.

\* Whether a shortest-path query from u finds a path (no NetworkXNoPath)
HasPath(D, u) == u \in DOMAIN D /\ D[u] < INF

\* nx.shortest_path_length(G, u, v, weight='weight'), where a path exists
shortest_path_length(D, u) == D[u] \div HopBase

\* nx.shortest_path(G, u, v, weight='weight'), where a path exists: one of the
\* shortest paths, the same one for the same graph
shortest_path(G, D, u, v) == Walk(G, D, u, v)

\* A spanning tree taken from the heaviest edges instead of the lightest
RECURSIVE kruskal_heaviest(_, _, _, _)
kruskal_heaviest(es, w, comp, acc) ==
    IF es = {} THEN acc
    ELSE LET e == CHOOSE f \in es : \A g \in es : w[f] >= w[g]
             a == CHOOSE x \in e : TRUE
             b == CHOOSE x \in e : e = {a, x}
         IN IF comp[a] = comp[b]
            THEN kruskal_heaviest(es \ {e}, w, comp, acc)
            ELSE kruskal_heaviest(es \ {e}, w,
                                  [x \in DOMAIN comp |-> IF comp[x] = comp[b] THEN comp[a] ELSE comp[x]],
                                  Append(acc, e))

\* nx.minimum_spanning_tree (Kruskal): the lightest edge that joins two
\* components, again and again; comp maps each node to its component
RECURSIVE Kruskal(_, _, _, _)
Kruskal(es, w, comp, acc) ==
    IF es = {} THEN acc
    ELSE LET e == CHOOSE f \in es : \A g \in es : w[f] <= w[g]
             a == CHOOSE x \in e : TRUE
             b == CHOOSE x \in e : e = {a, x}
         IN IF comp[a] = comp[b]
            THEN Kruskal(es \ {e}, w, comp, acc)
            ELSE Kruskal(es \ {e}, w,
                         [x \in DOMAIN comp |-> IF comp[x] = comp[b] THEN comp[a] ELSE comp[x]],
                         Append(acc, e))

\* The edges of the minimum spanning tree (forest), in the order they are laid
minimum_spanning_tree(K) == Kruskal(K.edges, K.weight, [x \in K.nodes |-> x], <<>>)

----------------------------------------------------------------------------
(* WiringCalculator.  A calculation threads st = [S, err, log]: the system   *)
(* as changed so far, the exception raised, if any, and what was observed at *)
(* the end of each Step 3.  Once err is set the rest of the calculation is   *)
(* skipped: the exception propagates to the caller and what was changed      *)
(* stays changed.                                                            *)

Running(S) == [S |-> S, err |-> None, log |-> <<>>]

Failed(st) == st.err # None

Raise(st, e) == IF Failed(st) THEN st ELSE [st EXCEPT !.err = e]

RECURSIVE SumSeq(_, _)
SumSeq(s, i) == IF i = 0 THEN 0 ELSE s[i] + SumSeq(s, i - 1)

RECURSIVE SumOver(_, _)
SumOver(f, ks) ==
    IF ks = {} THEN 0
    ELSE LET k == CHOOSE x \in ks : TRUE IN f[k] + SumOver(f, ks \ {k})

\* list(set(...)): the elements of a set in some fixed order
RECURSIVE SetToSeq(_)
SetToSeq(s) ==
    IF s = {} THEN <<>>
    ELSE LET x == CHOOSE y \in s : TRUE IN <<x>> \o SetToSeq(s \ {x})

\* for i in range(len(path) - 1): conduit = get_conduit(path[i], path[i+1]);
\* if conduit: conduit.add_wire(wire_type, unit_id=..., circuit_id=circuit_id or system.circuit_id)
RECURSIVE add_wires_to_path(_, _, _, _, _, _)
add_wires_to_path(st, path, i, wire_type, unit_id, circuit_id) ==
    IF Failed(st) \/ i >= Len(path) THEN st
    ELSE LET cid == get_conduit(st.S, path[i], path[i + 1])
             st1 == IF cid = None THEN st
                    ELSE IF ~Has(st.S.conduits, cid) THEN Raise(st, "KeyError")
                    ELSE LET k == IndexOf(st.S.conduits, cid)
                             r == add_wire(st.S.conduits[k], wire_type, unit_id,
                                           Or(circuit_id, DefaultCircuitId))
                         IN IF r.raised THEN Raise(st, "ValueError")
                            ELSE [st EXCEPT !.S.conduits[k] = r.c]
         IN add_wires_to_path(st1, path, i + 1, wire_type, unit_id, circuit_id)

\* The accumulation with range(len(path) - 2): it stops one conduit short of
\* the end of the path
RECURSIVE add_current_short(_, _, _, _, _, _, _, _)
add_current_short(st, path, i, wire_type, any_unit, unit_id, circuit_id, amount) ==
    IF Failed(st) \/ i >= Len(path) - 1 THEN st
    ELSE LET cid == get_conduit(st.S, path[i], path[i + 1])
             st1 == IF cid = None THEN st
                    ELSE IF ~Has(st.S.conduits, cid) THEN Raise(st, "KeyError")
                    ELSE LET k == IndexOf(st.S.conduits, cid)
                         IN [st EXCEPT !.S.conduits[k].wires =
                               [j \in DOMAIN @ |->
                                  IF /\ @[j].wire_type = wire_type
                                     /\ @[j].circuit_id = circuit_id
                                     /\ (any_unit \/ @[j].unit_id = unit_id)
                                  THEN [@[j] EXCEPT !.current = @ + amount]
                                  ELSE @[j]]]
         IN add_current_short(st1, path, i + 1, wire_type, any_unit, unit_id, circuit_id, amount)

\* The accumulation loops of the four steps: along the path, every wire of the
\* conduit with this type and circuit (and this unit, unless any_unit) gets
\* amount added to its current
RECURSIVE add_current_along(_, _, _, _, _, _, _, _)
add_current_along(st, path, i, wire_type, any_unit, unit_id, circuit_id, amount) ==
    IF Failed(st) \/ i >= Len(path) THEN st
    ELSE LET cid == get_conduit(st.S, path[i], path[i + 1])
             st1 == IF cid = None THEN st
                    ELSE IF ~Has(st.S.conduits, cid) THEN Raise(st, "KeyError")
                    ELSE LET k == IndexOf(st.S.conduits, cid)
                         IN [st EXCEPT !.S.conduits[k].wires =
                               [j \in DOMAIN @ |->
                                  IF /\ @[j].wire_type = wire_type
                                     /\ @[j].circuit_id = circuit_id
                                     /\ (any_unit \/ @[j].unit_id = unit_id)
                                  THEN [@[j] EXCEPT !.current = @ + amount]
                                  ELSE @[j]]]
         IN add_current_along(st1, path, i + 1, wire_type, any_unit, unit_id, circuit_id, amount)

HasWire(c, wire_type, circuit_id) ==
    \E j \in DOMAIN c.wires :
        c.wires[j].wire_type = wire_type /\ (circuit_id = None \/ c.wires[j].circuit_id = circuit_id)

\* WiringCalculator._build_wire_graph
build_wire_graph(S, wire_type, circuit_id) ==
    GraphOf(Keys(S.nodes), SelectSeq(S.conduits, LAMBDA c : HasWire(c, wire_type, circuit_id)))

\* The base graph without the restriction to the allowed nodes
BaseGraphWhole(G, allowed) == G

\* baseG = self.graph if not allowed_nodes else self.graph.subgraph(allowed_nodes)
BaseGraph(G, allowed) == IF allowed = {} THEN G ELSE Subgraph(G, allowed)

\* for (u, v) in T.edges(): lay the wire along the shortest path from u to v
RECURSIVE lay_tree_edges(_, _, _, _, _, _, _, _)
lay_tree_edges(st, baseG, dist, T, i, wire_type, unit_id, circuit_id) ==
    IF Failed(st) \/ i > Len(T) THEN st
    ELSE LET u == CHOOSE x \in T[i] : TRUE
             v == CHOOSE x \in T[i] : T[i] = {u, x}
             st1 == add_wires_to_path(st, shortest_path(baseG, dist[v], u, v), 1,
                                      wire_type, unit_id, circuit_id)
         IN lay_tree_edges(st1, baseG, dist, T, i + 1, wire_type, unit_id, circuit_id)

\* WiringCalculator._lay_mst_wires_via_conduits.  The length query from a
\* target that is no node of the base graph raises NodeNotFound, which is not
\* caught; the query to such a target finds no path, which is.
lay_mst_wires_via_conduits(st, G, node_ids, anchor_id, wire_type, unit_id, circuit_id, allowed) ==
    LET targets == Range(node_ids) \cup {anchor_id}
        order == SetToSeq(targets)
        baseG == BaseGraph(G, allowed)
        dist == [v \in targets |-> DistancesTo(baseG, v)]
        pairs == {e \in SUBSET targets : Cardinality(e) = 2}
        joined == {e \in pairs : \E u \in e : \E v \in e : u # v /\ HasPath(dist[v], u)}
        K == [nodes |-> UNION joined,
              edges |-> joined,
              weight |-> [e \in joined |->
                            LET u == CHOOSE x \in e : TRUE
                                v == CHOOSE x \in e : e = {u, x}
                            IN shortest_path_length(dist[v], u)]]
    IN IF Failed(st) \/ Cardinality(targets) < 2 THEN st
       ELSE IF \E i \in 1..(Len(order) - 1) : order[i] \notin baseG.nodes
       THEN Raise(st, "NodeNotFound")
       ELSE IF joined = {} THEN st
       ELSE lay_tree_edges(st, baseG, dist, minimum_spanning_tree(K), 1,
                           wire_type, unit_id, circuit_id)

\* dist_boxes = distribution_box_ids or ([distribution_box_id] if distribution_box_id else [])
DistBoxes(S) ==
    IF S.distribution_box_ids # <<>> THEN S.distribution_box_ids
    ELSE IF Truthy(S.distribution_box_id) THEN <<S.distribution_box_id>>
    ELSE <<>>

\* The distance from node_id to the i-th box, INF when there is no path
BoxDistance(G, boxes, i, node_id, allowed) ==
    LET baseG == IF allowed = {} THEN G ELSE Subgraph(G, allowed \cup {boxes[i], node_id})
        D == DistancesTo(baseG, boxes[i])
    IN IF HasPath(D, node_id) /\ boxes[i] \in baseG.nodes
       THEN shortest_path_length(D, node_id) ELSE INF

\* WiringCalculator._nearest_db: the first box at the strictly smallest distance
nearest_db(G, S, node_id, allowed) ==
    LET boxes == DistBoxes(S)
        d == [i \in DOMAIN boxes |-> BoxDistance(G, boxes, i, node_id, allowed)]
        reach == {i \in DOMAIN boxes : d[i] < INF}
    IN IF reach = {} THEN None
       ELSE boxes[CHOOSE i \in reach :
                    \A j \in reach : d[i] < d[j] \/ (d[i] = d[j] /\ i <= j)]

IsSwitch(S, nid) == IsNode(S, nid) /\ Get(S.nodes, nid).node_type = SWITCH

\* A first loop of Step 1 that does not look at the node types
lay_base_wires_on_switches(S, circuit_id, allowed) ==
    [S EXCEPT !.conduits =
        [i \in DOMAIN @ |->
           LET c == @[i]
           IN IF /\ IsNode(S, c.start_node_id) /\ IsNode(S, c.end_node_id)
                 /\ c.start_node_id \in allowed /\ c.end_node_id \in allowed
              THEN add_wire_object(
                       add_wire_object(c, Wire(WT_N, None, circuit_id, 0), None).c,
                       Wire(WT_PE, None, circuit_id, 0), None).c
              ELSE c]]

\* Step 1, first loop: N and PE on every conduit between two allowed nodes
\* neither of which is a switch
lay_base_wires(S, circuit_id, allowed) ==
    [S EXCEPT !.conduits =
        [i \in DOMAIN @ |->
           LET c == @[i]
               u == c.start_node_id
               v == c.end_node_id
           IN IF /\ IsNode(S, u) /\ IsNode(S, v)
                 /\ ~IsSwitch(S, u) /\ ~IsSwitch(S, v)
                 /\ u \in allowed /\ v \in allowed
              THEN add_wire_object(
                       add_wire_object(c, Wire(WT_N, None, circuit_id, 0), None).c,
                       Wire(WT_PE, None, circuit_id, 0), None).c
              ELSE c]]

\* Step 1, second loop: each device whose nearest box is dbid adds its rated
\* current to the N wires of this circuit on its shortest path to the box
RECURSIVE add_device_currents(_, _, _, _, _, _, _, _)
add_device_currents(st, G, baseG, D, i, dbid, circuit_id, allowed) ==
    IF Failed(st) \/ i > Len(st.S.nodes) THEN st
    ELSE LET dev == st.S.nodes[i]
             st1 == IF \/ dev.node_type \in {SWITCH, DISTRIBUTION_BOX}
                       \/ dev.id \notin allowed
                    THEN st
                    ELSE IF dev.id \notin G.nodes /\ DistBoxes(st.S) # <<>>
                    THEN Raise(st, "NodeNotFound")
                    ELSE IF nearest_db(G, st.S, dev.id, allowed) # dbid THEN st
                    ELSE IF ~HasPath(D, dev.id) THEN st
                    ELSE add_current_along(st, shortest_path(baseG, D, dev.id, dbid), 1,
                                           WT_N, TRUE, None, circuit_id, dev.rated_current)
         IN add_device_currents(st1, G, baseG, D, i + 1, dbid, circuit_id, allowed)

\* WiringCalculator._step1_lay_base_circuit
step1_lay_base_circuit(st, G, dbid, circuit_id, allowed) ==
    LET baseG == Subgraph(G, allowed \cup {dbid})
    IN IF Failed(st) THEN st
       ELSE add_device_currents([st EXCEPT !.S = lay_base_wires(@, circuit_id, allowed)],
                                G, baseG, DistancesTo(baseG, dbid), 1, dbid, circuit_id, allowed)

\* for member_id in member_ids: along the shortest path over the wires of this
\* type and circuit to the target, add the member's rated current to the
\* unit's wires; a member without such a path is skipped
RECURSIVE add_member_currents(_, _, _, _, _, _, _, _, _)
add_member_currents(st, Gw, D, member_ids, i, target, wire_type, unit_id, circuit_id) ==
    IF Failed(st) \/ i > Len(member_ids) THEN st
    ELSE LET m == member_ids[i]
             st1 == IF ~HasPath(D, m) \/ ~IsNode(st.S, m) THEN st
                    ELSE add_current_along(st, shortest_path(Gw, D, m, target), 1, wire_type,
                                           FALSE, unit_id, circuit_id,
                                           Get(st.S.nodes, m).rated_current)
         IN add_member_currents(st1, Gw, D, member_ids, i + 1, target, wire_type,
                                unit_id, circuit_id)

\* One unit of Step 2 or Step 3: lay the wires of the spanning tree over the
\* members and the target, then accumulate the members' currents
wire_unit(st, G, unit, target, wire_type, circuit_id, allowed) ==
    LET st1 == lay_mst_wires_via_conduits(st, G, unit.member_node_ids, target, wire_type,
                                          unit.id, circuit_id, allowed)
        Gw == build_wire_graph(st1.S, wire_type, circuit_id)
    IN IF Failed(st1) THEN st1
       ELSE add_member_currents(st1, Gw, DistancesTo(Gw, target), unit.member_node_ids, 1,
                                target, wire_type, unit.id, circuit_id)

RECURSIVE lay_uncontrolled_units(_, _, _, _, _, _)
lay_uncontrolled_units(st, G, i, dbid, circuit_id, allowed) ==
    IF Failed(st) \/ i > Len(st.S.units) THEN st
    ELSE LET unit == st.S.units[i]
             st1 == IF \/ unit.unit_type # UNCONTROLLED
                       \/ unit.member_node_ids = <<>>
                       \/ ~(Range(unit.member_node_ids) \subseteq allowed)
                    THEN st
                    ELSE wire_unit(st, G, unit, dbid, L_POWER, circuit_id, allowed)
         IN lay_uncontrolled_units(st1, G, i + 1, dbid, circuit_id, allowed)

\* WiringCalculator._step2_lay_uncontrolled_power
step2_lay_uncontrolled_power(st, G, dbid, circuit_id, allowed) ==
    IF Failed(st) \/ ~Truthy(dbid) THEN st
    ELSE lay_uncontrolled_units(st, G, 1, dbid, circuit_id, allowed)

RECURSIVE lay_controlled_units(_, _, _, _, _)
lay_controlled_units(st, G, i, circuit_id, allowed) ==
    IF Failed(st) \/ i > Len(st.S.units) THEN st
    ELSE LET unit == st.S.units[i]
             st1 == IF \/ unit.unit_type # CONTROLLED
                       \/ ~Truthy(unit.control_switch_id)
                       \/ unit.control_switch_id \notin allowed
                       \/ unit.member_node_ids = <<>>
                       \/ ~(Range(unit.member_node_ids) \subseteq allowed)
                    THEN st
                    ELSE wire_unit(st, G, unit, unit.control_switch_id, L_CONTROL,
                                   circuit_id, allowed)
         IN lay_controlled_units(st1, G, i + 1, circuit_id, allowed)

\* The currents of the wires of one type and circuit on a conduit, summed
WireCurrent(c, wire_type, circuit_id) ==
    SumSeq([j \in DOMAIN c.wires |->
              IF c.wires[j].wire_type = wire_type /\ c.wires[j].circuit_id = circuit_id
              THEN c.wires[j].current ELSE 0],
           Len(c.wires))

\* Step 3, last loop: the control currents on the conduits adj lists for the
\* switch, between allowed nodes only
SwitchLoad(S, switch_id, circuit_id, allowed) ==
    LET nbrs == IF switch_id \in DOMAIN S.adj THEN S.adj[switch_id] ELSE EmptyMap
        counted == {n \in DOMAIN nbrs :
                      /\ switch_id \in allowed /\ n \in allowed
                      /\ Has(S.conduits, nbrs[n])}
    IN SumOver([n \in counted |-> WireCurrent(Get(S.conduits, nbrs[n]), L_CONTROL, circuit_id)],
               counted)

\* Every switch of the system gets its load written, the switches outside the
\* allowed set included (their load is 0)
update_switch_currents(S, circuit_id, allowed) ==
    [S EXCEPT !.nodes =
        [i \in DOMAIN @ |->
           IF @[i].node_type = SWITCH
           THEN [@[i] EXCEPT !.rated_current = SwitchLoad(S, S.nodes[i].id, circuit_id, allowed)]
           ELSE @[i]]]

\* WiringCalculator._step3_lay_control_wires
step3_lay_control_wires(st, G, dbid, circuit_id, allowed) ==
    LET st1 == lay_controlled_units(st, G, 1, circuit_id, allowed)
    IN IF Failed(st1) THEN st1
       ELSE [st1 EXCEPT !.S = update_switch_currents(@, circuit_id, allowed)]

\* Step 4: the nodes already on a Power wire of this circuit, and the box
InitialPowerSources(S, dbid, circuit_id) ==
    {dbid} \cup UNION { {S.conduits[i].start_node_id, S.conduits[i].end_node_id} :
                         i \in {j \in DOMAIN S.conduits : HasWire(S.conduits[j], L_POWER, circuit_id)} }

\* A connection loop that connects no switch
connect_no_switch(st, G, unconnected, power_sources, circuit_id, allowed) == st

\* A connection loop that lets the missing path of the switches left over
\* escape instead of stopping
RECURSIVE connect_switches_uncaught(_, _, _, _, _, _)
connect_switches_uncaught(st, G, unconnected, power_sources, circuit_id, allowed) ==
    IF Failed(st) \/ unconnected = {} THEN st
    ELSE IF unconnected \cap power_sources # {}
    THEN LET sw == CHOOSE x \in unconnected \cap power_sources : TRUE
         IN connect_switches_uncaught(st, G, unconnected \ {sw}, power_sources, circuit_id, allowed)
    ELSE LET baseG == Subgraph(G, allowed \cup power_sources)
             dist == [src \in power_sources |-> DistancesTo(baseG, src)]
             cand == {p \in unconnected \X power_sources :
                        p[2] \in baseG.nodes /\ HasPath(dist[p[2]], p[1])}
             len == [p \in cand |-> shortest_path_length(dist[p[2]], p[1])]
             best == CHOOSE p \in cand : \A q \in cand : len[p] <= len[q]
             path == shortest_path(baseG, dist[best[2]], best[1], best[2])
         IN IF \E sw \in unconnected : sw \notin baseG.nodes THEN Raise(st, "NodeNotFound")
            ELSE IF cand = {} THEN Raise(st, "NetworkXNoPath")
            ELSE connect_switches_uncaught(
                     IF len[best] > 0
                     THEN add_wires_to_path(st, path, 1, L_POWER, None, circuit_id)
                     ELSE st,
                     G, unconnected \ {best[1]}, power_sources \cup Range(path),
                     circuit_id, allowed)

\* Step 4, the connection loop: an unconnected switch that is itself a source
\* is taken at once; otherwise the switch nearest to any source gets a Power
\* wire along its path; the loop ends when no switch is left or none is reachable
RECURSIVE connect_switches(_, _, _, _, _, _)
connect_switches(st, G, unconnected, power_sources, circuit_id, allowed) ==
    IF Failed(st) \/ unconnected = {} THEN st
    ELSE IF unconnected \cap power_sources # {}
    THEN LET sw == CHOOSE x \in unconnected \cap power_sources : TRUE
         IN connect_switches(st, G, unconnected \ {sw}, power_sources, circuit_id, allowed)
    ELSE LET baseG == Subgraph(G, allowed \cup power_sources)
             dist == [src \in power_sources |-> DistancesTo(baseG, src)]
             cand == {p \in unconnected \X power_sources :
                        p[2] \in baseG.nodes /\ HasPath(dist[p[2]], p[1])}
             len == [p \in cand |-> shortest_path_length(dist[p[2]], p[1])]
             best == CHOOSE p \in cand : \A q \in cand : len[p] <= len[q]
             path == shortest_path(baseG, dist[best[2]], best[1], best[2])
         IN IF \E sw \in unconnected : sw \notin baseG.nodes THEN Raise(st, "NodeNotFound")
            ELSE IF cand = {} THEN st
            ELSE connect_switches(
                     IF len[best] > 0
                     THEN add_wires_to_path(st, path, 1, L_POWER, None, circuit_id)
                     ELSE st,
                     G, unconnected \ {best[1]}, power_sources \cup Range(path),
                     circuit_id, allowed)

\* Step 4, last loop: each allowed switch with a positive load adds it to the
\* Power wires of this circuit on its shortest Power-wire path to the box
RECURSIVE add_switch_currents(_, _, _, _, _, _, _)
add_switch_currents(st, Gp, D, i, dbid, circuit_id, allowed) ==
    IF Failed(st) \/ i > Len(st.S.nodes) THEN st
    ELSE LET sw == st.S.nodes[i]
             st1 == IF \/ sw.node_type # SWITCH
                       \/ sw.id \notin allowed
                       \/ sw.rated_current <= 0
                       \/ ~HasPath(D, sw.id)
                    THEN st
                    ELSE add_current_along(st, shortest_path(Gp, D, sw.id, dbid), 1, L_POWER,
                                           TRUE, None, circuit_id, sw.rated_current)
         IN add_switch_currents(st1, Gp, D, i + 1, dbid, circuit_id, allowed)

\* A Step 4 that connects no switch
step4_skipped(st, G, dbid, circuit_id, allowed) == st

\* WiringCalculator._step4_connect_switches_to_power
step4_connect_switches_to_power(st, G, dbid, circuit_id, allowed) ==
    IF Failed(st) THEN st
    ELSE LET switches == {n.id : n \in {m \in Values(st.S.nodes) :
                                          m.node_type = SWITCH /\ m.id \in allowed}}
             st1 == connect_switches(st, G, switches,
                                     InitialPowerSources(st.S, dbid, circuit_id),
                                     circuit_id, allowed)
             Gp == build_wire_graph(st1.S, L_POWER, circuit_id)
         IN IF Failed(st1) THEN st1
            ELSE add_switch_currents(st1, Gp, DistancesTo(Gp, dbid), 1,
                                     dbid, circuit_id, allowed)

\* What the end of Step 3 looks like: the circuit, its allowed set, the nodes
observe_step3(st, circuit_id, allowed) ==
    IF Failed(st) THEN st
    ELSE [st EXCEPT !.log = Append(@, [circuit_id |-> circuit_id, allowed |-> allowed,
                                       nodes |-> st.S.nodes])]

\* The four steps for one circuit
four_steps(st, G, dbid, circuit_id, allowed) ==
    step4_connect_switches_to_power(
        observe_step3(
            step3_lay_control_wires(
                step2_lay_uncontrolled_power(
                    step1_lay_base_circuit(st, G, dbid, circuit_id, allowed),
                    G, dbid, circuit_id, allowed),
                G, dbid, circuit_id, allowed),
            circuit_id, allowed),
        G, dbid, circuit_id, allowed)

\* f"{self.system.circuit_id}:{dbid}"
FallbackTag(dbid) == DefaultCircuitId \o ":" \o dbid

\* for dbid in dist_boxes: each box as a circuit of its own over all nodes
RECURSIVE calculate_boxes(_, _, _, _)
calculate_boxes(st, G, boxes, i) ==
    IF Failed(st) \/ i > Len(boxes) THEN st
    ELSE calculate_boxes(four_steps(st, G, boxes[i], FallbackTag(boxes[i]),
                                    {boxes[i]} \cup Keys(st.S.nodes)),
                         G, boxes, i + 1)

\* for circuit in self.system.circuits.values()
RECURSIVE calculate_circuits(_, _, _)
calculate_circuits(st, G, i) ==
    IF Failed(st) \/ i > Len(st.S.circuits) THEN st
    ELSE LET circuit == st.S.circuits[i]
         IN calculate_circuits(
                four_steps(st, G, circuit.distribution_box_id, circuit.id,
                           Range(circuit.member_node_ids) \cup {circuit.distribution_box_id}),
                G, i + 1)

\* WiringCalculator.calculate, on the graph G the calculator holds
calculate(S, G) ==
    LET st == Running(clear_wires(S))
    IN IF st.S.circuits = <<>>
       THEN calculate_boxes(st, G, DistBoxes(st.S), 1)
       ELSE calculate_circuits(st, G, 1)

----------------------------------------------------------------------------
(* What the specifications share *)

Commit(S) ==
    /\ nodes' = S.nodes
    /\ conduits' = S.conduits
    /\ units' = S.units
    /\ circuits' = S.circuits
    /\ adj' = S.adj
    /\ distribution_box_id' = S.distribution_box_id
    /\ distribution_box_ids' = S.distribution_box_ids

Holds(S) ==
    /\ nodes = S.nodes
    /\ conduits = S.conduits
    /\ units = S.units
    /\ circuits = S.circuits
    /\ adj = S.adj
    /\ distribution_box_id = S.distribution_box_id
    /\ distribution_box_ids = S.distribution_box_ids

\* Nothing remembered: no calculation since the wires were last touched
NoHistory == [phase |-> "none", result |-> <<>>, step3 |-> <<>>]

\* The record of a call: the operation, its arguments where a property needs
\* them, whether it raised and which error, and the number it returned (0
\* where it returns nothing)
Outcome(op, args, error, ret) ==
    [op |-> op, args |-> args, raised |-> error # None, error |-> error, ret |-> ret]

\* A call of a CircuitSystem method, which raises ValueError or nothing
Called(op, raised) ==
    /\ last' = Outcome(op, <<>>, IF raised THEN "ValueError" ELSE None, 0)
    /\ history' = NoHistory

----------------------------------------------------------------------------
(* The graph-model specification: the mutators of CircuitSystem that change  *)
(* nodes and conduits, called in any order on a system that starts empty.    *)

\* Bounds of the graph-model specification
MaxNodes == 2
MaxConduits == 2
MaxBoxEntries == 1

\* The nodes a caller may add: a distribution box and two devices
NodePool ==
    { Node("DB1", DISTRIBUTION_BOX, 0, 0, 0),
      Node("L1", LIGHT, 3, 0, 1),
      Node("SW1", SWITCH, 0, 4, 0) }

\* The ids a node may be renamed to
RenamePool == {"X1", ""}

\* c_manual_{n}, the ids the editor gives
ConduitIdPool == {"c_manual_" \o ToString(i) : i \in 1..MaxConduits}

Init ==
    /\ Holds(EmptySystem)
    /\ last = Outcome("init", <<>>, None, 0)
    /\ history = NoHistory

AddNode ==
    \E node \in NodePool :
        /\ Len(nodes) < MaxNodes \/ Has(nodes, node.id)
        /\ Len(distribution_box_ids) < MaxBoxEntries \/ node.node_type # DISTRIBUTION_BOX
        /\ Commit(add_node(Sys, node))
        /\ Called("add_node", FALSE)

\* A conduit between two different existing nodes, as the editor draws it
AddConduit ==
    \E id \in ConduitIdPool, u \in Keys(nodes), v \in Keys(nodes) :
        /\ u # v
        /\ Commit(add_conduit(Sys, Conduit(id, u, v, None)))
        /\ Called("add_conduit", FALSE)

RemoveConduit ==
    \E id \in ConduitIdPool :
        /\ Commit(remove_conduit(Sys, id))
        /\ Called("remove_conduit", FALSE)

RemoveNode ==
    \E nid \in Keys(nodes) :
        /\ Commit(remove_node(Sys, nid))
        /\ Called("remove_node", FALSE)

RenameNodeId ==
    \E old \in Keys(nodes) \cup {"L1"}, new \in RenamePool \cup {"L1"} :
        LET r == rename_node_id(Sys, old, new)
        IN /\ Commit(r.S)
           /\ Called("rename_node_id", r.raised)

ClearConduits ==
    /\ Commit(clear_conduits(Sys))
    /\ Called("clear_conduits", FALSE)

Next ==
    \/ AddNode
    \/ AddConduit
    \/ RemoveConduit
    \/ RemoveNode
    \/ RenameNodeId
    \/ ClearConduits

Spec == Init /\ [][Next]_vars

----------------------------------------------------------------------------
(* Properties of the graph model *)

\* The unordered pair of node ids a conduit joins
Ends(c) == {c.start_node_id, c.end_node_id}

\* C2: the conduit collection holds at most one conduit for each unordered
\* pair of node ids, whatever the order of the add_conduit calls and the
\* orientation of their endpoints.
C2_OneConduitPerPair ==
    \A i \in DOMAIN conduits : \A j \in DOMAIN conduits :
        Ends(conduits[i]) = Ends(conduits[j]) => i = j

\* Two add_conduit calls for the same pair have both been stored
C2_TwoConduitsOnePair ==
    /\ last.op = "add_conduit"
    /\ \E i \in DOMAIN conduits : \E j \in DOMAIN conduits :
           i # j /\ Ends(conduits[i]) = Ends(conduits[j])

\* C3: the adjacency index agrees with the conduit collection: adj[u][v] =
\* adj[v][u] = id exactly when the collection contains a conduit with that id
\* whose endpoints are {u, v}, and every conduit of the collection is indexed.
C3_AdjAgreesWithConduits ==
    /\ \A u \in DOMAIN adj : \A v \in DOMAIN adj[u] :
           /\ v \in DOMAIN adj /\ u \in DOMAIN adj[v] /\ adj[v][u] = adj[u][v]
           /\ Has(conduits, adj[u][v])
           /\ Ends(Get(conduits, adj[u][v])) = {u, v}
    /\ \A i \in DOMAIN conduits :
           LET u == conduits[i].start_node_id
               v == conduits[i].end_node_id
           IN /\ u \in DOMAIN adj /\ v \in DOMAIN adj[u] /\ adj[u][v] = conduits[i].id
              /\ v \in DOMAIN adj /\ u \in DOMAIN adj[v] /\ adj[v][u] = conduits[i].id

\* A conduit of the collection that the index does not lead to
C3_ConduitNotIndexed ==
    \E i \in DOMAIN conduits :
        get_conduit(Sys, conduits[i].start_node_id, conduits[i].end_node_id) # conduits[i].id

----------------------------------------------------------------------------
(* The circuit specification: circuits registered and nodes assigned, on a   *)
(* system that starts empty.                                                 *)

\* The circuits a caller may register: two ids, with and without a member
CircuitPool ==
    { Circuit("CT1", "DB1", <<>>),
      Circuit("CT1", "DB1", <<"L1">>),
      Circuit("CT2", "DB1", <<>>),
      Circuit("CT2", "DB1", <<"L1">>) }

AddCircuit ==
    \E circuit \in CircuitPool :
        LET r == add_circuit(Sys, circuit)
        IN /\ Commit(r.S)
           /\ Called("add_circuit", r.raised)

AssignNodeToCircuit ==
    \E nid \in Keys(nodes), cid \in Keys(circuits) :
        LET r == assign_node_to_circuit(Sys, nid, cid)
        IN /\ Commit(r.S)
           /\ Called("assign_node_to_circuit", r.raised)

NextCircuits ==
    \/ AddNode
    \/ AddCircuit
    \/ AssignNodeToCircuit

SpecCircuits == Init /\ [][NextCircuits]_vars

\* The registered circuits that list the node as a member
CircuitsOf(nid) == {c \in Values(circuits) : nid \in Range(c.member_node_ids)}

\* Every node that is no distribution box is a member of at most one circuit
MembersInOneCircuit ==
    \A n \in Values(nodes) :
        n.node_type # DISTRIBUTION_BOX => Cardinality(CircuitsOf(n.id)) <= 1

\* C4: after every add_circuit and assign_node_to_circuit call, rejected calls
\* included, every node that is no distribution box is a member of at most one
\* registered circuit, and a rejected add_circuit leaves the circuit
\* collection and the distribution-box list as they were.
C4_OneCircuitPerNode ==
    [][ /\ MembersInOneCircuit'
        /\ (last'.op = "add_circuit" /\ last'.raised)
               => (circuits' = circuits /\ distribution_box_ids' = distribution_box_ids)
      ]_vars

\* An add_circuit call has been rejected
C4_AddCircuitRejected == last.op = "add_circuit" /\ last.raised

----------------------------------------------------------------------------
(* The calculation specification: a system as the editor builds it, then     *)
(* calculate, clear_wires and direct Conduit.add_wire calls in any order.    *)

\* Bounds of the calculation specification
MaxCalcConduits == 3
MaxWiredConduits == 1
MaxDirectWires == 1

\* The nodes of the drawing, in the order they are added.  Every distance
\* between two of them is an integer.
CalcNodes ==
    << Node("DB1", DISTRIBUTION_BOX, 0, 0, 0),
       Node("JB1", JUNCTION_BOX, 5, 0, 0),
       Node("SW1", SWITCH, 9, 0, 0),
       Node("L1", LIGHT, 0, 12, 1),
       Node("L2", LIGHT, 16, 0, 2),
       Node("DB2", DISTRIBUTION_BOX, 35, 0, 0) >>

\* The pairs of nodes a conduit may be drawn between, in drawing order
CalcPairs ==
    << <<"DB1", "JB1">>, <<"JB1", "SW1">>, <<"JB1", "L1">>, <<"JB1", "L2">>,
       <<"DB1", "L1">>, <<"L1", "L2">>, <<"L2", "DB2">>, <<"DB1", "SW1">> >>

\* The units of the drawing: none, one controlled, one uncontrolled, or both
CalcUnits ==
    { <<>>,
      << Unit("C-UT1", CONTROLLED, <<"L1", "L2">>, "SW1") >>,
      << Unit("U-UT1", UNCONTROLLED, <<"L1", "L2">>, None) >>,
      << Unit("C-UT1", CONTROLLED, <<"L1">>, "SW1"), Unit("U-UT1", UNCONTROLLED, <<"L2">>, None) >> }

\* The node ids of the drawing and its circuits: no circuit with one box or
\* two, one circuit over everything or over the lights only, two circuits
\* with a box each or sharing one
CalcCircuits ==
    { [ids |-> {"DB1", "JB1", "SW1", "L1", "L2"}, circuits |-> <<>>],
      [ids |-> {"DB1", "JB1", "SW1", "L1", "L2", "DB2"}, circuits |-> <<>>],
      [ids |-> {"DB1", "JB1", "SW1", "L1", "L2"},
       circuits |-> << Circuit("CT1", "DB1", <<"JB1", "SW1", "L1", "L2">>) >>],
      [ids |-> {"DB1", "JB1", "SW1", "L1", "L2", "DB2"},
       circuits |-> << Circuit("CT1", "DB1", <<"L1", "L2">>) >>],
      [ids |-> {"DB1", "JB1", "SW1", "L1", "L2", "DB2"},
       circuits |-> << Circuit("CT1", "DB1", <<"JB1", "SW1", "L1">>),
                       Circuit("CT2", "DB2", <<"L2">>) >>],
      [ids |-> {"DB1", "JB1", "SW1", "L1", "L2"},
       circuits |-> << Circuit("CT1", "DB1", <<"L1">>),
                       Circuit("CT2", "DB1", <<"JB1", "SW1", "L2">>) >>] }

\* The circuit id a direct add_wire call names
DirectCircuitIds == {"CT2"}

RECURSIVE with_nodes(_, _, _)
with_nodes(S, ns, i) ==
    IF i > Len(ns) THEN S ELSE with_nodes(add_node(S, ns[i]), ns, i + 1)

\* MainWindow.create_conduit for each pair: c_manual_{count + 1}
RECURSIVE with_conduits(_, _, _)
with_conduits(S, ps, i) ==
    IF i > Len(ps) THEN S
    ELSE with_conduits(
             add_conduit(S, Conduit("c_manual_" \o ToString(Len(S.conduits) + 1),
                                    ps[i][1], ps[i][2], None)),
             ps, i + 1)

RECURSIVE with_units(_, _, _)
with_units(S, us, i) ==
    IF i > Len(us) THEN S ELSE with_units(add_unit(S, us[i]), us, i + 1)

RECURSIVE with_circuits(_, _, _)
with_circuits(S, cs, i) ==
    IF i > Len(cs) THEN S ELSE with_circuits(add_circuit(S, cs[i]).S, cs, i + 1)

\* The system after the nodes, conduits, units and circuits have been added
Drawing(ids, pairs, us, cs) ==
    with_circuits(
        with_units(
            with_conduits(
                with_nodes(EmptySystem, SelectSeq(CalcNodes, LAMBDA n : n.id \in ids), 1),
                pairs, 1),
            us, 1),
        cs, 1)

\* The pairs of CalcPairs at the positions P, in drawing order
Chosen(P) ==
    LET t == SelectSeq([k \in DOMAIN CalcPairs |-> <<k, CalcPairs[k][1], CalcPairs[k][2]>>],
                       LAMBDA x : x[1] \in P)
    IN [i \in DOMAIN t |-> <<t[i][2], t[i][3]>>]

InitCalc ==
    /\ \E P \in SUBSET DOMAIN CalcPairs, us \in CalcUnits, d \in CalcCircuits :
           /\ Cardinality(P) <= MaxCalcConduits
           /\ \A k \in P : Range(CalcPairs[k]) \subseteq d.ids
           /\ Holds(Drawing(d.ids, Chosen(P), us, d.circuits))
    /\ last = Outcome("init", <<>>, None, 0)
    /\ history = NoHistory

\* What a calculation laid: the wires of every conduit, the nodes with the
\* rated currents of the switches, and the error it ended with
Laid(error) ==
    [wires |-> [i \in DOMAIN conduits |-> conduits[i].wires], nodes |-> nodes, error |-> error]

\* WiringCalculator(system).calculate(), as MainWindow.calculate_wiring calls
\* it: a calculator made for the call, its graph built from the system as it is
Calculate ==
    \E r \in {calculate(Sys, build_graph(Sys))} :
       /\ Commit(r.S)
       /\ last' = Outcome("calculate", <<>>, r.err, 0)
       /\ history' = [phase |-> IF history.phase = "cleared" THEN "recalculated" ELSE "calculated",
                      result |-> IF history.phase = "cleared" THEN history.result ELSE <<>>,
                      step3 |-> r.log]

\* clear_wires; called right after a calculation, the observer keeps what the
\* calculation had laid
ClearWires ==
    /\ Commit(clear_wires(Sys))
    /\ last' = Outcome("clear_wires", <<>>, None, 0)
    /\ history' = IF last.op = "calculate"
                  THEN [phase |-> "cleared", result |-> Laid(last.error), step3 |-> <<>>]
                  ELSE NoHistory

\* conduit.add_wire(WireType.L_UNIT, circuit_id=cid) or
\* conduit.add_wire(Wire(wire_type=WireType.L_UNIT, circuit_id=cid))
AddWire ==
    \E i \in DOMAIN conduits, form \in {"type", "object"}, cid \in DirectCircuitIds :
        /\ i <= MaxWiredConduits
        /\ Len(conduits[i].wires) < MaxDirectWires
        /\ \E r \in {IF form = "type"
                     THEN add_wire(conduits[i], L_UNIT, None, cid)
                     ELSE add_wire_object(conduits[i], Wire(L_UNIT, None, cid, 0), None)} :
              /\ conduits' = [conduits EXCEPT ![i] = r.c]
              /\ last' = Outcome("add_wire", <<i, form, cid, conduits[i]>>,
                                 IF r.raised THEN "ValueError" ELSE None, 0)
        /\ history' = NoHistory
        /\ UNCHANGED <<nodes, units, circuits, adj, distribution_box_id, distribution_box_ids>>

NextCalc ==
    \/ Calculate
    \/ ClearWires
    \/ AddWire

SpecCalc == InitCalc /\ [][NextCalc]_vars

----------------------------------------------------------------------------
(* Properties of the calculation *)

\* C1: all wires on one conduit carry the same circuit id, and on a conduit
\* that is bound to a circuit it is the circuit the conduit is bound to,
\* whether the wire was given as a WireType with a circuit_id or as a Wire
\* carrying its own circuit id.
C1_OneCircuitPerConduit ==
    \A i \in DOMAIN conduits :
        \A j \in DOMAIN conduits[i].wires : \A k \in DOMAIN conduits[i].wires :
            /\ conduits[i].wires[j].circuit_id = conduits[i].wires[k].circuit_id
            /\ conduits[i].circuit_id # None
                   => conduits[i].wires[j].circuit_id = conduits[i].circuit_id

\* calculate has left Neutral wires of two circuits on one conduit
C1_MixedAfterCalculate ==
    /\ last.op = "calculate"
    /\ \E i \in DOMAIN conduits :
           \E j \in DOMAIN conduits[i].wires : \E k \in DOMAIN conduits[i].wires :
               /\ conduits[i].wires[j].wire_type = WT_N
               /\ conduits[i].wires[k].wire_type = WT_N
               /\ conduits[i].wires[j].circuit_id # conduits[i].wires[k].circuit_id

\* The circuits a calculation goes through: the registered ones or, with
\* none registered, one per distribution box over all nodes
Processed ==
    IF circuits # <<>>
    THEN {[id |-> c.id, box |-> c.distribution_box_id,
           allowed |-> Range(c.member_node_ids) \cup {c.distribution_box_id}] :
          c \in Values(circuits)}
    ELSE {[id |-> FallbackTag(b), box |-> b, allowed |-> {b} \cup Keys(nodes)] :
          b \in Range(DistBoxes(Sys))}

\* Whether conduits join the two nodes within the allowed set
Joined(allowed, u, v) == HasPath(DistancesTo(Subgraph(build_graph(Sys), allowed), v), u)

\* Whether wires of this type and circuit join the two nodes
Wired(wire_type, circuit_id, u, v) ==
    HasPath(DistancesTo(build_wire_graph(Sys, wire_type, circuit_id), v), u)

\* The units Step 2 and Step 3 lay wires for in a circuit, with the node their
\* wires run to and the type of the wires
UnitsLaid(p) ==
    {[unit |-> u, target |-> p.box, wire_type |-> L_POWER] :
       u \in {x \in Values(units) :
                /\ x.unit_type = UNCONTROLLED /\ x.member_node_ids # <<>>
                /\ Range(x.member_node_ids) \subseteq p.allowed}}
    \cup
    {[unit |-> u, target |-> u.control_switch_id, wire_type |-> L_CONTROL] :
       u \in {x \in Values(units) :
                /\ x.unit_type = CONTROLLED /\ x.member_node_ids # <<>>
                /\ Truthy(x.control_switch_id) /\ x.control_switch_id \in p.allowed
                /\ Range(x.member_node_ids) \subseteq p.allowed}}

\* No unit was skipped and no wire was laid against a binding: every Power and
\* Control wire carries the circuit its conduit is bound to, and every member
\* of a unit that conduits join to the unit's target is wired to it
NothingSkipped ==
    /\ \A i \in DOMAIN conduits : \A j \in DOMAIN conduits[i].wires :
           conduits[i].wires[j].wire_type \in {L_POWER, L_CONTROL}
               => conduits[i].wires[j].circuit_id = conduits[i].circuit_id
    /\ \A p \in Processed : \A l \in UnitsLaid(p) :
           \A m \in Range(l.unit.member_node_ids) :
               Joined(p.allowed, m, l.target) => Wired(l.wire_type, p.id, m, l.target)

\* C5: add_wire called with a circuit id other than the one the conduit is
\* bound to raises ValueError, adds no wire and leaves the binding as it was;
\* and a calculation ends either with that error raised to its caller or with
\* nothing skipped.
C5_ConflictRaises ==
    /\ last.op = "add_wire" =>
           LET i == last.args[1]
               c == last.args[4]
           IN (last.args[2] = "type" /\ c.circuit_id # None /\ c.circuit_id # last.args[3])
                  => (last.error = "ValueError" /\ conduits[i] = c)
    /\ last.op = "calculate" =>
           \/ last.error = "ValueError"
           \/ last.error = None /\ NothingSkipped

\* A calculation has ended with the conflict raised to its caller
C5_CalculateRaised == last.op = "calculate" /\ last.error = "ValueError"

\* C7: calculate, clear_wires, calculate on a topology that did not change
\* leaves on every conduit the wires the first calculate left, with the same
\* currents, and on every switch the same rated current; and no wire that was
\* there before a calculate is there after it.
C7_RecalculateSame ==
    /\ history.phase = "recalculated" => Laid(last.error) = history.result
    /\ last.op = "calculate" =>
           \A i \in DOMAIN conduits : \A j \in DOMAIN conduits[i].wires :
               conduits[i].wires[j].wire_type # L_UNIT

\* The second calculate has ended, with control current on a wire and a load
\* on a switch
C7_Recalculated ==
    /\ history.phase = "recalculated"
    /\ last.error = None
    /\ \E i \in DOMAIN conduits : \E j \in DOMAIN conduits[i].wires :
           conduits[i].wires[j].wire_type = L_CONTROL /\ conduits[i].wires[j].current > 0
    /\ \E n \in Values(nodes) : n.node_type = SWITCH /\ n.rated_current > 0

\* The rated currents of the members of the controlled units the switch
\* controls: units whose switch and members are all in the allowed set, members
\* that conduits within the allowed set join to the switch
ControlledLoad(e, switch_id) ==
    LET member_load(u) ==
            SumSeq([j \in DOMAIN u.member_node_ids |->
                      IF Joined(e.allowed, u.member_node_ids[j], switch_id)
                      THEN Get(e.nodes, u.member_node_ids[j]).rated_current ELSE 0],
                   Len(u.member_node_ids))
    IN SumSeq([i \in DOMAIN units |->
                 IF /\ units[i].unit_type = CONTROLLED
                    /\ units[i].control_switch_id = switch_id
                    /\ Range(units[i].member_node_ids) \subseteq e.allowed
                 THEN member_load(units[i]) ELSE 0],
              Len(units))

\* C8: at the end of Step 3 for a circuit, the rated current of every switch
\* in the circuit's allowed set is the sum of the rated currents of the
\* members of the controlled units that switch controls, wherever the switch
\* is placed.
C8_SwitchRatedCurrent ==
    \A k \in DOMAIN history.step3 :
        \A n \in Values(history.step3[k].nodes) :
            (n.node_type = SWITCH /\ n.id \in history.step3[k].allowed)
                => n.rated_current = ControlledLoad(history.step3[k], n.id)

\* Step 3 has ended for a circuit with a load on one of its switches
C8_SwitchLoaded ==
    \E k \in DOMAIN history.step3 :
        \E n \in Values(history.step3[k].nodes) :
            n.node_type = SWITCH /\ n.id \in history.step3[k].allowed /\ n.rated_current > 0

\* C10: after calculate, a conduit that holds a wire of a circuit has both of
\* its ends in that circuit's allowed set, the circuit's members and its box.
C10_WiresWithinAllowed ==
    last.op = "calculate" =>
        \A p \in Processed : \A i \in DOMAIN conduits :
            (\E j \in DOMAIN conduits[i].wires : conduits[i].wires[j].circuit_id = p.id)
                => Ends(conduits[i]) \subseteq p.allowed

\* calculate has laid Power or Control wires of a registered circuit while a
\* conduit leads from the circuit's nodes to a node outside them
C10_LaidNextToOutside ==
    /\ last.op = "calculate" /\ last.error = None /\ circuits # <<>>
    /\ \E p \in Processed :
          /\ \E i \in DOMAIN conduits : \E j \in DOMAIN conduits[i].wires :
                /\ conduits[i].wires[j].circuit_id = p.id
                /\ conduits[i].wires[j].wire_type \in {L_POWER, L_CONTROL}
          /\ \E i \in DOMAIN conduits :
                /\ Ends(conduits[i]) \cap p.allowed # {}
                /\ ~(Ends(conduits[i]) \subseteq p.allowed)

\* The conduits of a circuit: those with both ends among its nodes
CircuitConduits(p) == {i \in DOMAIN conduits : Ends(conduits[i]) \subseteq p.allowed}

\* The conduits of the circuit at its box
BoxConduits(p) == {i \in CircuitConduits(p) : p.box \in Ends(conduits[i])}

\* The conduits of the circuit form a tree over its nodes, and one of them
\* is at the box
SingleFedTree(p) ==
    LET A == p.allowed \cap Keys(nodes)
    IN /\ p.box \in A
       /\ Cardinality(CircuitConduits(p)) = Cardinality(A) - 1
       /\ \A a \in A : Joined(p.allowed, a, p.box)
       /\ Cardinality(BoxConduits(p)) = 1

\* The current of the circuit's Neutral wires in the conduit
NeutralCurrent(c, circuit_id) ==
    SumSeq([j \in DOMAIN c.wires |->
              IF c.wires[j].wire_type = WT_N /\ c.wires[j].circuit_id = circuit_id
              THEN c.wires[j].current ELSE 0],
           Len(c.wires))

\* The devices of the circuit: its nodes that are neither switch nor box
Devices(p) ==
    {n \in Values(nodes) : n.id \in p.allowed /\ n.node_type \notin {SWITCH, DISTRIBUTION_BOX}}

DeviceLoad(p) ==
    SumSeq([i \in DOMAIN nodes |-> IF nodes[i] \in Devices(p) THEN nodes[i].rated_current ELSE 0],
           Len(nodes))

\* The Neutral current at the box is the load of the circuit's devices
Conserved(p) ==
    \A i \in BoxConduits(p) : NeutralCurrent(conduits[i], p.id) = DeviceLoad(p)

\* Step 1 lays Neutral in the conduit at the box and counts every device of
\* the circuit for the circuit's box
CountedAtBox(p) ==
    /\ \A i \in BoxConduits(p) : \A x \in Ends(conduits[i]) : ~IsSwitch(Sys, x)
    /\ \A n \in Devices(p) : nearest_db(build_graph(Sys), Sys, n.id, p.allowed) = p.box

\* C9 as stated: in a circuit whose conduits form a tree with one conduit at
\* the box, after calculate the Neutral current of the circuit in that conduit
\* is the sum of the rated currents of the circuit's devices.
C9_NeutralAtBox ==
    (last.op = "calculate" /\ last.error = None) =>
        \A p \in Processed : SingleFedTree(p) => Conserved(p)

\* C9 amended: the same, for a circuit whose conduit at the box does not end
\* at a switch and whose devices all have the circuit's box as their nearest
\* distribution box.
C9_NeutralAtBoxCounted ==
    (last.op = "calculate" /\ last.error = None) =>
        \A p \in Processed : (SingleFedTree(p) /\ CountedAtBox(p)) => Conserved(p)

\* calculate has ended on such a circuit with a device beyond the first
\* conduit, while the system has a second box
C9_TreeFedThroughOneConduit ==
    /\ last.op = "calculate" /\ last.error = None
    /\ Len(DistBoxes(Sys)) = 2
    /\ \E p \in Processed :
          /\ SingleFedTree(p) /\ CountedAtBox(p)
          /\ Cardinality(CircuitConduits(p)) >= 2
          /\ DeviceLoad(p) = 3

----------------------------------------------------------------------------
(* TopologyGenerator.generate_mst_topology.  A run threads acc = [S, count]: *)
(* the system as changed so far and the conduits added for the circuit.      *)

\* The position at which x first appears in the list
Position(ns, x) == CHOOSE i \in DOMAIN ns : ns[i] = x /\ \A k \in 1..(i - 1) : ns[k] # x

\* [system.nodes[nid] for nid in circuit.member_node_ids if nid in system.nodes],
\* then the box if it is a node, then without the switches; as ids
mst_nodes(S, circuit) ==
    LET members == SelectSeq(circuit.member_node_ids, LAMBDA nid : Has(S.nodes, nid))
        allowed_nodes == IF Has(S.nodes, circuit.distribution_box_id)
                         THEN Append(members, circuit.distribution_box_id)
                         ELSE members
    IN SelectSeq(allowed_nodes, LAMBDA nid : Get(S.nodes, nid).node_type # SWITCH)

\* G.add_edge(u.id, v.id, weight=hypot(...)) for i < j
complete_graph(S, ns) ==
    LET es == {{ns[i], ns[j]} : i \in DOMAIN ns, j \in DOMAIN ns} \ {{ns[i]} : i \in DOMAIN ns}
    IN [nodes |-> Range(ns),
        edges |-> es,
        weight |-> [e \in es |->
                      LET u == CHOOSE x \in e : TRUE
                          v == CHOOSE x \in e : x # u
                      IN Hypot(Get(S.nodes, u), Get(S.nodes, v))]]

\* mst.edges(): node by node in the order the nodes entered the graph, each
\* node's tree edges in the order Kruskal took them, an edge once
RECURSIVE mst_edges(_, _, _)
mst_edges(ns, T, p) ==
    IF p > Len(ns) THEN <<>>
    ELSE LET u == ns[p]
             other(e) == CHOOSE x \in e : x # u
             mine == IF Position(ns, u) # p THEN <<>>
                     ELSE SelectSeq(T, LAMBDA e : u \in e /\ Position(ns, other(e)) > p)
         IN [k \in DOMAIN mine |-> <<u, other(mine[k])>>] \o mst_edges(ns, T, p + 1)

\* for conduit in system.conduits.values(): same circuit and same two ends
exists_in_circuit(S, circuit_id, u, v) ==
    \E i \in DOMAIN S.conduits :
        /\ S.conduits[i].circuit_id = circuit_id
        /\ \/ S.conduits[i].start_node_id = u /\ S.conduits[i].end_node_id = v
           \/ S.conduits[i].start_node_id = v /\ S.conduits[i].end_node_id = u

\* f"c_{circuit.id}_{len(system.conduits) + 1}_{count}"
topology_conduit_id(circuit_id, n, count) ==
    "c_" \o circuit_id \o "_" \o ToString(n + 1) \o "_" \o ToString(count)

\* if not exists: system.add_conduit(Conduit(..., circuit_id=circuit.id)); count += 1
connect(acc, circuit_id, u, v) ==
    IF exists_in_circuit(acc.S, circuit_id, u, v) THEN acc
    ELSE [S |-> add_conduit(acc.S,
                            Conduit(topology_conduit_id(circuit_id, Len(acc.S.conduits), acc.count),
                                    u, v, circuit_id)),
          count |-> acc.count + 1]

\* for u_id, v_id in mst.edges()
RECURSIVE connect_mst_edges(_, _, _, _)
connect_mst_edges(acc, circuit_id, E, i) ==
    IF i > Len(E) THEN acc
    ELSE connect_mst_edges(connect(acc, circuit_id, E[i][1], E[i][2]), circuit_id, E, i + 1)

\* The member nearest to the switch, the first of the nearest; None without
\* a member that is a node
best_member(S, unit, switch) ==
    LET ms == SelectSeq(unit.member_node_ids, LAMBDA mid : Has(S.nodes, mid))
        d(k) == Hypot(Get(S.nodes, ms[k]), switch)
    IN IF ms = <<>> THEN None
       ELSE ms[CHOOSE k \in DOMAIN ms :
                  /\ \A j \in DOMAIN ms : d(k) <= d(j)
                  /\ \A j \in 1..(k - 1) : d(j) > d(k)]

\* for unit in system.units.values(): the nearest member of a controlled unit
\* of the circuit is joined to the unit's switch
RECURSIVE connect_unit_switches(_, _, _)
connect_unit_switches(acc, circuit, i) ==
    IF i > Len(acc.S.units) THEN acc
    ELSE LET unit == acc.S.units[i]
             applies == /\ unit.unit_type = CONTROLLED
                        /\ Truthy(unit.control_switch_id)
                        /\ unit.member_node_ids # <<>>
                        /\ unit.control_switch_id \in Range(circuit.member_node_ids)
                        /\ Range(unit.member_node_ids) \subseteq Range(circuit.member_node_ids)
                        /\ Has(acc.S.nodes, unit.control_switch_id)
             best == best_member(acc.S, unit, Get(acc.S.nodes, unit.control_switch_id))
         IN connect_unit_switches(
                IF applies /\ best # None
                THEN connect(acc, circuit.id, best, unit.control_switch_id)
                ELSE acc,
                circuit, i + 1)

\* for circuit in system.circuits.values(): total += count is taken after
\* the tree edges and before the unit switches
RECURSIVE generate_circuits(_, _, _)
generate_circuits(S, total, i) ==
    IF i > Len(S.circuits) THEN [S |-> S, ret |-> total]
    ELSE LET circuit == S.circuits[i]
             ns == mst_nodes(S, circuit)
             E == mst_edges(ns, minimum_spanning_tree(complete_graph(S, ns)), 1)
             tree == connect_mst_edges([S |-> S, count |-> 0], circuit.id, E, 1)
         IN IF Len(ns) < 2 THEN generate_circuits(S, total, i + 1)
            ELSE generate_circuits(connect_unit_switches(tree, circuit, 1).S,
                                   total + tree.count, i + 1)

generate_mst_topology(S) ==
    IF S.circuits = <<>> THEN [S |-> S, ret |-> 0] ELSE generate_circuits(S, 0, 1)

----------------------------------------------------------------------------
(* The topology model: a drawing with its circuits and units, on which the   *)
(* user draws conduits, removes conduits and lets the conduits be generated  *)

\* Conduits drawn by hand, at most
MaxManual == 1

TopoNodes == SubSeq(CalcNodes, 1, 4)

\* No unit, or one light controlled by the switch
TopoUnits == { <<>>, << Unit("C-UT1", CONTROLLED, <<"L1">>, "SW1") >> }

\* No circuit, one circuit over everything, two circuits sharing the box
TopoCircuits ==
    { <<>>,
      << Circuit("CT1", "DB1", <<"JB1", "SW1", "L1">>) >>,
      << Circuit("CT1", "DB1", <<"JB1">>), Circuit("CT2", "DB1", <<"SW1", "L1">>) >> }

\* The pairs of nodes a conduit may be drawn between
TopoPairs == { <<"JB1", "DB1">>, <<"L1", "JB1">>, <<"SW1", "JB1">> }

\* cid.startswith("c_manual_"), for the ids create_conduit can give
ManualIds == {"c_manual_" \o ToString(i) : i \in 1..MaxManual}

InitTopo ==
    /\ \E us \in TopoUnits, cs \in TopoCircuits :
           Holds(with_circuits(with_units(with_nodes(EmptySystem, TopoNodes, 1), us, 1), cs, 1))
    /\ last = Outcome("init", <<>>, None, 0)
    /\ history = NoHistory

\* MainWindow.create_conduit(start_id, end_id)
CreateConduit ==
    \E pair \in TopoPairs :
        LET seq == Cardinality(Keys(conduits) \cap ManualIds) + 1
        IN /\ seq <= MaxManual
           /\ get_conduit(Sys, pair[1], pair[2]) = None
           /\ Commit(add_conduit(Sys, Conduit("c_manual_" \o ToString(seq), pair[1], pair[2], None)))
           /\ last' = Outcome("create_conduit", pair, None, 0)
           /\ history' = NoHistory

\* system.remove_conduit(conduit_id)
DeleteConduit ==
    \E id \in Keys(conduits) :
        /\ Commit(remove_conduit(Sys, id))
        /\ last' = Outcome("remove_conduit", <<id>>, None, 0)
        /\ history' = NoHistory

\* MainWindow.auto_connect_conduits: the conduits before the run are
\* remembered, and whether the run follows another run directly
GenerateMstTopology ==
    \E r \in {generate_mst_topology(Sys)} :
        /\ Commit(r.S)
        /\ last' = Outcome("generate_mst_topology", <<>>, None, r.ret)
        /\ history' = [phase |-> IF last.op = "generate_mst_topology"
                                 THEN "regenerated" ELSE "generated",
                       result |-> conduits,
                       step3 |-> <<>>]

NextTopo ==
    \/ CreateConduit
    \/ DeleteConduit
    \/ GenerateMstTopology

SpecTopo == InitTopo /\ [][NextTopo]_vars

----------------------------------------------------------------------------
(* Properties of the topology generator *)

\* C6: a run of generate_mst_topology that directly follows another run adds
\* no conduit and returns 0, and after a run no two conduits join the same
\* unordered pair of nodes, whatever conduits there were before the runs.
C6_GenerateTwice ==
    last.op = "generate_mst_topology" =>
        /\ history.phase = "regenerated" => (conduits = history.result /\ last.ret = 0)
        /\ \A i, j \in DOMAIN conduits : i # j => Ends(conduits[i]) # Ends(conduits[j])

\* A run has followed another run and conduits of a circuit are there
C6_RanTwice ==
    /\ last.op = "generate_mst_topology"
    /\ history.phase = "regenerated"
    /\ \E i \in DOMAIN conduits : conduits[i].circuit_id # None

----------------------------------------------------------------------------
(* The add model: the four add methods of CircuitSystem called in any order, *)
(* with ids that may already be in the collection they add to.  Each call    *)
(* records the id it was given and whether that id was already there.        *)

\* The units a caller may add
UnitPool ==
    { Unit("U-UT1", UNCONTROLLED, <<>>, None),
      Unit("U-UT1", UNCONTROLLED, <<"L1">>, None) }

\* system.add_node(node)
CallAddNode ==
    \E node \in NodePool :
        /\ Len(nodes) < MaxNodes \/ Has(nodes, node.id)
        /\ Len(distribution_box_ids) < MaxBoxEntries \/ node.node_type # DISTRIBUTION_BOX
        /\ Commit(add_node(Sys, node))
        /\ last' = Outcome("add_node", <<node.id, Has(nodes, node.id)>>, None, 0)
        /\ history' = NoHistory

\* system.add_conduit(conduit)
CallAddConduit ==
    \E id \in ConduitIdPool, u \in Keys(nodes), v \in Keys(nodes) :
        /\ u # v
        /\ Commit(add_conduit(Sys, Conduit(id, u, v, None)))
        /\ last' = Outcome("add_conduit", <<id, Has(conduits, id)>>, None, 0)
        /\ history' = NoHistory

\* system.add_unit(unit)
CallAddUnit ==
    \E unit \in UnitPool :
        /\ Commit(add_unit(Sys, unit))
        /\ last' = Outcome("add_unit", <<unit.id, Has(units, unit.id)>>, None, 0)
        /\ history' = NoHistory

\* system.add_circuit(circuit)
CallAddCircuit ==
    \E circuit \in CircuitPool :
        \E r \in {add_circuit(Sys, circuit)} :
            /\ Commit(r.S)
            /\ last' = Outcome("add_circuit", <<circuit.id, Has(circuits, circuit.id)>>,
                               IF r.raised THEN "ValueError" ELSE None, 0)
            /\ history' = NoHistory

NextAdd ==
    \/ CallAddNode
    \/ CallAddConduit
    \/ CallAddUnit
    \/ CallAddCircuit

SpecAdd == Init /\ [][NextAdd]_vars

\* C11: add_node, add_conduit, add_unit and add_circuit called with an id that
\* is already in the collection they add to are rejected, and the nodes,
\* conduits, units, circuits, the adjacency index and the distribution-box
\* list stay as they were.
C11_DuplicateIdRejected ==
    [][ (last'.op \in {"add_node", "add_conduit", "add_unit", "add_circuit"} /\ last'.args[2])
            => /\ last'.raised
               /\ UNCHANGED <<nodes, conduits, units, circuits, adj,
                              distribution_box_id, distribution_box_ids>>
      ]_vars

\* An add call has been given an id that was already in its collection
C11_AddedExistingId ==
    /\ last.op \in {"add_node", "add_conduit", "add_unit", "add_circuit"}
    /\ last.args[2]

----------------------------------------------------------------------------
(* The edit model: a drawing with its conduits, units and circuits, in which *)
(* nodes are renamed and removed.  Each call records its arguments.          *)

\* system.rename_node_id(old_id, new_id)
CallRenameNodeId ==
    \E old \in Keys(nodes) \cup {"X1"}, new \in RenamePool \cup {"L1"} :
        \E r \in {rename_node_id(Sys, old, new)} :
            /\ Commit(r.S)
            /\ last' = Outcome("rename_node_id", <<old, new>>,
                               IF r.raised THEN "ValueError" ELSE None, 0)
            /\ history' = NoHistory

\* system.remove_node(node_id)
CallRemoveNode ==
    \E nid \in Keys(nodes) \cup {"X1"} :
        /\ Commit(remove_node(Sys, nid))
        /\ last' = Outcome("remove_node", <<nid, Has(nodes, nid)>>, None, 0)
        /\ history' = NoHistory

NextEdit ==
    \/ CallRenameNodeId
    \/ CallRemoveNode

\* The drawing that is edited: a box, a switch and a light, with or without
\* a controlled unit and a circuit
EditNodes == << CalcNodes[1], CalcNodes[3], CalcNodes[4] >>

EditCircuits == { <<>>, << Circuit("CT1", "DB1", <<"SW1", "L1">>) >> }

\* The conduits add_conduit was called for: one from the box to the light,
\* and then none, a second one between the same two nodes, or one from the
\* light to the switch
EditConduits ==
    { << <<"DB1", "L1">> >>,
      << <<"DB1", "L1">>, <<"L1", "DB1">> >>,
      << <<"DB1", "L1">>, <<"L1", "SW1">> >> }

InitEdit ==
    /\ \E us \in TopoUnits, cs \in EditCircuits, ps \in EditConduits :
           Holds(with_circuits(
                     with_units(
                         with_conduits(with_nodes(EmptySystem, EditNodes, 1), ps, 1),
                         us, 1),
                     cs, 1))
    /\ last = Outcome("init", <<>>, None, 0)
    /\ history = NoHistory

SpecEdit == InitEdit /\ [][NextEdit]_vars

\* Nothing in the system refers to the node id
Unreferenced(x) ==
    /\ ~Has(nodes, x)
    /\ x \notin DOMAIN adj
    /\ \A k \in DOMAIN adj : x \notin DOMAIN adj[k]
    /\ \A c \in Values(conduits) : x \notin Ends(c)
    /\ \A u \in Values(units) : x \notin Range(u.member_node_ids) /\ u.control_switch_id # x
    /\ x \notin Range(distribution_box_ids)
    /\ distribution_box_id # x
    /\ \A c \in Values(circuits) : x \notin Range(c.member_node_ids) /\ c.distribution_box_id # x

\* C12: after rename_node_id(old, new) has succeeded, nothing refers to old:
\* not the node map, the adjacency keys and neighbor keys, the conduit ends,
\* the units' members and control switches, the distribution-box list, nor
\* the circuits' members and distribution boxes.
C12_RenameLeavesNoReference ==
    (last.op = "rename_node_id" /\ ~last.raised /\ last.args[1] # last.args[2])
        => Unreferenced(last.args[1])

\* A node has been renamed in a drawing with a circuit
C12_Renamed ==
    /\ last.op = "rename_node_id" /\ ~last.raised /\ last.args[1] # last.args[2]
    /\ Has(nodes, last.args[2])
    /\ circuits # <<>>

\* C13: a rename_node_id call that is rejected (the new id is empty, the new
\* id is already a node, or the old id is no node) leaves every collection as
\* it was, and so does a call whose old and new id are the same.
C13_RejectedRenameChangesNothing ==
    [][ (/\ last'.op = "rename_node_id"
         /\ (last'.raised \/ last'.args[1] = last'.args[2]))
            => UNCHANGED <<nodes, conduits, units, circuits, adj,
                           distribution_box_id, distribution_box_ids>> ]_vars

\* A rename of a node that has a conduit and is in a unit was rejected because
\* the new id is the id of another node
C13_RenameRejected ==
    /\ last.op = "rename_node_id"
    /\ last.raised
    /\ last.args[1] # last.args[2]
    /\ Has(nodes, last.args[1])
    /\ Has(nodes, last.args[2])
    /\ \E c \in Values(conduits) : last.args[1] \in Ends(c)
    /\ \E u \in Values(units) : last.args[1] \in Range(u.member_node_ids)


\* C14: after remove_node(n) on a node that existed, no conduit has n as an
\* endpoint, adj has no key n and no neighbor entry n, and no unit has n as a
\* member or as its control switch.
C14_RemoveNodeLeavesNoReference ==
    (last.op = "remove_node" /\ last.args[2])
        => /\ \A c \in Values(conduits) : last.args[1] \notin Ends(c)
           /\ last.args[1] \notin DOMAIN adj
           /\ \A k \in DOMAIN adj : last.args[1] \notin DOMAIN adj[k]
           /\ \A u \in Values(units) :
                  /\ last.args[1] \notin Range(u.member_node_ids)
                  /\ u.control_switch_id # last.args[1]

\* A node has been removed, and no conduit is left in the drawing
C14_NodeRemoved ==
    /\ last.op = "remove_node" /\ last.args[2]
    /\ ~Has(nodes, last.args[1])
    /\ conduits = <<>>


\* C15: a run of generate_mst_topology deletes, replaces and modifies no
\* conduit that was there before it, after any sequence of runs, added and
\* removed conduits: every conduit id of before is still there with the same
\* endpoints and the same binding, so every conduit the run creates has an id
\* that was not in use.
C15_GenerateKeepsConduits ==
    last.op = "generate_mst_topology" =>
        \A c \in Values(history.result) :
            /\ Has(conduits, c.id)
            /\ Get(conduits, c.id).start_node_id = c.start_node_id
            /\ Get(conduits, c.id).end_node_id = c.end_node_id
            /\ Get(conduits, c.id).circuit_id = c.circuit_id

\* A run has added conduits to a drawing that had conduits
C15_GeneratedOverConduits ==
    /\ last.op = "generate_mst_topology"
    /\ history.result # <<>>
    /\ Len(conduits) > Len(history.result)

\* C16: generate_mst_topology returns the number of conduits it added, the
\* conduits of the spanning trees and the conduits to the unit switches of
\* all circuits together; without circuits it returns 0 and changes nothing.
C16_ReturnsNumberAdded ==
    last.op = "generate_mst_topology" =>
        /\ last.ret = Len(conduits) - Len(history.result)
        /\ circuits = <<>> => (last.ret = 0 /\ conduits = history.result)

\* A run has added conduits and returned a number
C16_GeneratedSome ==
    /\ last.op = "generate_mst_topology"
    /\ last.ret > 0
    /\ \E c \in Values(conduits) : c.circuit_id # None


\* C17: a conduit whose circuit_id is set keeps that circuit_id: no step of
\* add_wire, clear_wires or calculate resets it or binds it to another value.
C17_BindingNeverChanges ==
    [][ \A i \in DOMAIN conduits :
            conduits[i].circuit_id # None
                => /\ i \in DOMAIN conduits'
                   /\ conduits'[i].id = conduits[i].id
                   /\ conduits'[i].circuit_id = conduits[i].circuit_id ]_vars

\* The wires have been cleared and a conduit is still bound
C17_BoundAfterClear ==
    /\ last.op = "clear_wires"
    /\ \E c \in Values(conduits) : c.circuit_id # None /\ c.wires = <<>>


\* The boxes, tags and allowed sets calculate works through: one per circuit,
\* or one per distribution box over all nodes when there is no circuit
Scopes(S) ==
    IF S.circuits = <<>>
    THEN {[dbid |-> b, tag |-> FallbackTag(b), allowed |-> {b} \cup Keys(S.nodes)] :
             b \in Range(DistBoxes(S))}
    ELSE {[dbid |-> c.distribution_box_id, tag |-> c.id,
           allowed |-> Range(c.member_node_ids) \cup {c.distribution_box_id}] :
              c \in Values(S.circuits)}

\* x is a device in an allowed set that no conduit path within the allowed
\* nodes joins to the box, nor to the switch of a controlled unit it is in
Unreachable(S, x) ==
    LET G == build_graph(S)
        mine == {sc \in Scopes(S) : x \in sc.allowed}
    IN /\ IsNode(S, x)
       /\ Get(S.nodes, x).node_type \notin {SWITCH, DISTRIBUTION_BOX}
       /\ mine # {}
       /\ \A sc \in mine :
              /\ ~HasPath(DistancesTo(Subgraph(G, sc.allowed), sc.dbid), x)
              /\ \A u \in Values(S.units) :
                     (x \in Range(u.member_node_ids) /\ Truthy(u.control_switch_id))
                         => ~HasPath(DistancesTo(Subgraph(G, sc.allowed), u.control_switch_id), x)

\* The system without the node x: its conduits are gone, and no unit and no
\* circuit has it as a member
Without(S, x) ==
    [remove_node(S, x) EXCEPT
        !.circuits = [i \in DOMAIN @ |->
                        [@[i] EXCEPT !.member_node_ids = SelectSeq(@, LAMBDA m : m # x)]]]

\* x is at the end of at most one conduit, so that no path between two other
\* nodes runs through it
AtLineEnd(S, x) ==
    Cardinality({i \in DOMAIN S.conduits : x \in Ends(S.conduits[i])}) <= 1

\* C18: a device in an allowed set with no conduit path to its box and to its
\* switch does not make calculate raise and adds current to no wire: the
\* calculation ends as it ends when the device is not in the system, the
\* wires of the device's own conduit carry no current, and every other
\* conduit gets the wires and currents it gets without the device.
C18_UnreachableDeviceIgnored ==
    \A x \in Keys(nodes) :
        (Unreachable(Sys, x) /\ AtLineEnd(Sys, x)) =>
            \A A \in {calculate(Sys, build_graph(Sys))} :
            \A B \in {calculate(Without(Sys, x), build_graph(Without(Sys, x)))} :
                /\ A.err = B.err
                /\ \A c \in Values(A.S.conduits) :
                       IF x \in Ends(c)
                       THEN \A k \in DOMAIN c.wires : c.wires[k].current = 0
                       ELSE /\ Has(B.S.conduits, c.id)
                            /\ Get(B.S.conduits, c.id).wires = c.wires

\* A calculation has ended without error in a drawing where a member of a
\* unit is unreachable, has a conduit, and another device has put current
\* on a wire
C18_UnreachableCalculated ==
    /\ last.op = "calculate" /\ last.error = None
    /\ \E x \in Keys(nodes) :
          /\ Unreachable(Sys, x) /\ AtLineEnd(Sys, x)
          /\ \E u \in Values(units) : x \in Range(u.member_node_ids)
          /\ \E c \in Values(conduits) : x \in Ends(c)
    /\ \E c \in Values(conduits) : \E k \in DOMAIN c.wires : c.wires[k].current > 0


\* C20: without circuits, calculate takes every distribution box as a circuit
\* of its own over all nodes and runs the four steps to their end for each
\* box, however many boxes there are: it ends without error and Step 3 has
\* ended once for each box, in order, with the box's tag and all nodes.
C20_EveryBoxCalculated ==
    (last.op = "calculate" /\ circuits = <<>>)
        => /\ last.error = None
           /\ Len(history.step3) = Len(DistBoxes(Sys))
           /\ \A i \in DOMAIN history.step3 :
                  /\ history.step3[i].circuit_id = FallbackTag(DistBoxes(Sys)[i])
                  /\ history.step3[i].allowed = {DistBoxes(Sys)[i]} \cup Keys(nodes)

\* A calculation without circuits has gone through two boxes and laid wires
C20_TwoBoxesCalculated ==
    /\ last.op = "calculate" /\ circuits = <<>>
    /\ last.error = None
    /\ Len(DistBoxes(Sys)) > 1
    /\ Len(history.step3) = Len(DistBoxes(Sys))
    /\ \E c \in Values(conduits) : c.wires # <<>>


-----------------------------------------------------------------------------
(* The id generators.  An id is a string; what the generators do with it     *)
(* (startswith, the slice after the prefix, isdigit, int) is defined on the  *)
(* ids the model makes: a prefix followed by nothing, by a number, by a      *)
(* number with a leading zero, or by a letter.                               *)

\* The largest number an id of the pools carries
MaxSeq == 2

\* The most units and the most circuits the collections hold at a time
MaxIds == 2

\* uid[len(prefix):] when uid.startswith(prefix), None otherwise
Suffix(uid, prefix) ==
    LET tails == {""} \cup {"x"} \cup {ToString(k) : k \in 0..(MaxSeq + MaxIds)}
                      \cup {"0" \o ToString(k) : k \in 0..(MaxSeq + MaxIds)}
    IN IF \E t \in tails : uid = prefix \o t
       THEN CHOOSE t \in tails : uid = prefix \o t
       ELSE None

\* str.isdigit
isdigit(t) ==
    \E k \in 0..(MaxSeq + MaxIds) : t = ToString(k) \/ t = "0" \o ToString(k)

\* int(str): leading zeros do not count
int(t) ==
    CHOOSE k \in 0..(MaxSeq + MaxIds) : t = ToString(k) \/ t = "0" \o ToString(k)

\* existing_seqs = {int(uid[len(prefix):]) for uid in existing_ids if uid[len(prefix):].isdigit()}
existing_seqs(ids, prefix) ==
    {int(Suffix(uid, prefix)) :
        uid \in {u \in ids : Suffix(u, prefix) # None /\ isdigit(Suffix(u, prefix))}}

\* A generator that counts on from the largest number
next_seq(seqs) ==
    IF seqs = {} THEN 1 ELSE (CHOOSE m \in seqs : \A y \in seqs : y <= m) + 1

\* max_seq ... seq = min(missing) if missing else max_seq + 1
min_missing(seqs) ==
    LET max_seq == IF seqs = {} THEN 0 ELSE CHOOSE m \in seqs : \A y \in seqs : y <= m
        missing == (1..(max_seq + 1)) \ seqs
    IN IF missing # {} THEN Min(missing) ELSE max_seq + 1

generate_unit_id(S, unit_type) ==
    LET prefix == IF unit_type = CONTROLLED THEN "C-UT" ELSE "U-UT"
    IN prefix \o ToString(min_missing(existing_seqs(Keys(S.units), prefix)))

generate_circuit_id(S) ==
    "C-C" \o ToString(min_missing(existing_seqs(Keys(S.circuits), "C-C")))

\* The ids a caller of add_unit and add_circuit gives of its own
NamedUnitIds == {"C-UT0" \o ToString(k) : k \in 1..MaxSeq} \cup {"C-UTx"}

NamedCircuitIds == {"C-C0" \o ToString(k) : k \in 1..MaxSeq} \cup {"C-C" \o ToString(MaxSeq)}

\* unit_id = system.generate_unit_id(type); system.add_unit(Unit(id=unit_id, ...))
NewUnit ==
    \E t \in {CONTROLLED, UNCONTROLLED} :
        /\ Len(units) < MaxIds
        /\ \E id \in {generate_unit_id(Sys, t)} :
              /\ Commit(add_unit(Sys, Unit(id, t, <<>>, None)))
              /\ last' = Outcome("generate_unit_id",
                                 <<IF t = CONTROLLED THEN "C-UT" ELSE "U-UT", id, Keys(units)>>,
                                 None, 0)
        /\ history' = NoHistory

\* system.add_unit(Unit(id=...)) with an id of the caller
AddNamedUnit ==
    \E id \in NamedUnitIds :
        /\ Len(units) < MaxIds
        /\ Commit(add_unit(Sys, Unit(id, CONTROLLED, <<>>, None)))
        /\ Called("add_unit", FALSE)

\* del self.system.units[unit_id]
DeleteUnit ==
    \E id \in Keys(units) :
        /\ Commit([Sys EXCEPT !.units = Del(@, id)])
        /\ Called("del_unit", FALSE)

\* cid = system.generate_circuit_id(); system.add_circuit(Circuit(id=cid, ...))
NewCircuit ==
    /\ Len(circuits) < MaxIds
    /\ \E id \in {generate_circuit_id(Sys)} :
          /\ Commit(add_circuit(Sys, Circuit(id, "DB1", <<>>)).S)
          /\ last' = Outcome("generate_circuit_id", <<"C-C", id, Keys(circuits)>>, None, 0)
    /\ history' = NoHistory

\* system.add_circuit(Circuit(id=...)) with an id of the caller
AddNamedCircuit ==
    \E id \in NamedCircuitIds :
        /\ Len(circuits) < MaxIds
        /\ Commit(add_circuit(Sys, Circuit(id, "DB1", <<>>)).S)
        /\ Called("add_circuit", FALSE)

\* del self.system.circuits[circuit.id]
DeleteCircuit ==
    \E id \in Keys(circuits) :
        /\ Commit([Sys EXCEPT !.circuits = Del(@, id)])
        /\ Called("del_circuit", FALSE)

NextIds ==
    \/ NewUnit
    \/ AddNamedUnit
    \/ DeleteUnit
    \/ NewCircuit
    \/ AddNamedCircuit
    \/ DeleteCircuit

SpecIds == Init /\ [][NextIds]_vars

\* The numbers taken under a prefix: j is taken when an id of the collection
\* is the prefix followed by j written in digits, with or without a leading
\* zero
Taken(ids, prefix, j) ==
    prefix \o ToString(j) \in ids \/ prefix \o "0" \o ToString(j) \in ids

\* C19, as amended: generate_unit_id and generate_circuit_id return the prefix
\* followed by the smallest positive integer k that no id of the collection
\* carries after the prefix, where an id with leading zeros carries its
\* number too; the returned id is never an id of the collection.
C19_SmallestUntakenNumber ==
    last.op \in {"generate_unit_id", "generate_circuit_id"} =>
        /\ last.args[2] \notin last.args[3]
        /\ \E k \in 1..(MaxSeq + MaxIds) :
              /\ last.args[2] = last.args[1] \o ToString(k)
              /\ ~Taken(last.args[3], last.args[1], k)
              /\ \A j \in 1..(k - 1) : Taken(last.args[3], last.args[1], j)

\* C19: generate_unit_id and generate_circuit_id return the prefix followed
\* by the smallest positive integer k such that prefix + k is no id of the
\* collection, after any additions and deletions; the returned id is never
\* an id of the collection.
C19_SmallestUnusedId ==
    last.op \in {"generate_unit_id", "generate_circuit_id"} =>
        /\ last.args[2] \notin last.args[3]
        /\ \E k \in 1..(MaxSeq + MaxIds) :
              /\ last.args[2] = last.args[1] \o ToString(k)
              /\ \A j \in 1..(k - 1) : last.args[1] \o ToString(j) \in last.args[3]

\* After a deletion, a generator has returned a number below one that is in
\* the collection
C19_GapFilled ==
    /\ last.op \in {"generate_unit_id", "generate_circuit_id"}
    /\ \E k \in 1..MaxSeq, j \in 1..(MaxSeq + MaxIds) :
          /\ k < j
          /\ last.args[2] = last.args[1] \o ToString(k)
          /\ last.args[1] \o ToString(j) \in last.args[3]


-----------------------------------------------------------------------------
(* The scenario of the specification: a box, a switch at distance 5, a light *)
(* on the switch by a conduit of length 3, a socket on the box by a conduit  *)
(* of length 4, one circuit.  Currents are counted in halves of an ampere:   *)
(* 0.5 A is 1 and 2.0 A is 4.                                                *)

\* The rated currents the light and the socket are drawn with
LightCurrents == {1, 2}

SocketCurrents == {3, 4}

\* What is drawn beside the scenario: nothing; a second switch SW2 on SW1 with
\* its light LT2 ("chain"); or SW2 and LT2 joined to each other only ("island")
ScenarioExtensions == {"none", "chain", "island"}

ScenarioNodes(lt, sk, ext) ==
    << Node("DB1", DISTRIBUTION_BOX, 0, 0, 0),
       Node("SW1", SWITCH, 5, 0, 0),
       Node("LT1", LIGHT, 5, 3, lt),
       Node("SK1", SOCKET, 0, 4, sk) >>
    \o IF ext = "none" THEN <<>>
       ELSE << Node("SW2", SWITCH, 11, 0, 0), Node("LT2", LIGHT, 11, 3, lt) >>

\* The three conduits, in each order they may be drawn, and then the
\* conduits of what is drawn beside the scenario
ScenarioPairs(ext) ==
    LET ps == << <<"DB1", "SW1">>, <<"SW1", "LT1">>, <<"DB1", "SK1">> >>
        more == IF ext = "none" THEN <<>>
                ELSE IF ext = "chain" THEN << <<"SW1", "SW2">>, <<"SW2", "LT2">> >>
                ELSE << <<"SW2", "LT2">> >>
    IN {[i \in 1..3 |-> ps[f[i]]] \o more :
           f \in {g \in [1..3 -> 1..3] : {g[1], g[2], g[3]} = 1..3}}

ScenarioUnits(ext) ==
    << Unit("C-UT1", CONTROLLED, <<"LT1">>, "SW1"),
       Unit("U-UT1", UNCONTROLLED, <<"SK1">>, None) >>
    \o IF ext = "none" THEN <<>> ELSE << Unit("C-UT2", CONTROLLED, <<"LT2">>, "SW2") >>

ScenarioCircuit(ext) ==
    Circuit("CT1", "DB1",
            <<"SW1", "LT1", "SK1">> \o IF ext = "none" THEN <<>> ELSE <<"SW2", "LT2">>)

InitScenario ==
    /\ \E lt \in LightCurrents, sk \in SocketCurrents, ext \in ScenarioExtensions :
       \E ps \in ScenarioPairs(ext) :
           Holds(with_circuits(
                     with_units(
                         with_conduits(with_nodes(EmptySystem, ScenarioNodes(lt, sk, ext), 1),
                                       ps, 1),
                         ScenarioUnits(ext), 1),
                     << ScenarioCircuit(ext) >>, 1))
    /\ last = Outcome("init", <<>>, None, 0)
    /\ history = NoHistory

SpecScenario == InitScenario /\ [][NextCalc]_vars

\* The conduit between two nodes of the scenario
Between(u, v) == CHOOSE c \in Values(conduits) : Ends(c) = {u, v}

\* C21: in the scenario, with nothing drawn beside it and no conduit bound to
\* another circuit, calculate
\* lays Neutral and PE on DB1-SK1 only, a Power wire of the socket's unit on
\* DB1-SK1 with the socket's current (2.0 A), a Control wire on SW1-LT1 with
\* the light's current (0.5 A), sets the rated current of SW1 to the light's
\* current, and lays a Power wire on DB1-SW1 with that current.
C21_Scenario ==
    (/\ last.op = "calculate"
     /\ ~Has(nodes, "SW2")
     /\ \A c \in Values(conduits) : c.circuit_id \in {None, "CT1"})
        => LET lt == Get(nodes, "LT1").rated_current
               sk == Get(nodes, "SK1").rated_current
           IN /\ last.error = None
              /\ Between("DB1", "SK1").wires =
                     << Wire(WT_N, None, "CT1", sk), Wire(WT_PE, None, "CT1", 0),
                        Wire(L_POWER, "U-UT1", "CT1", sk) >>
              /\ Between("SW1", "LT1").wires = << Wire(L_CONTROL, "C-UT1", "CT1", lt) >>
              /\ Get(nodes, "SW1").rated_current = lt
              /\ Between("DB1", "SW1").wires = << Wire(L_POWER, None, "CT1", lt) >>

\* The scenario with 0.5 A and 2.0 A has been calculated
C21_ScenarioCalculated ==
    /\ last.op = "calculate" /\ last.error = None
    /\ Get(nodes, "LT1").rated_current = 1
    /\ Get(nodes, "SK1").rated_current = 4
    /\ ~Has(nodes, "SW2")
    /\ Between("DB1", "SW1").wires # <<>>


\* The system with its circuits in the opposite order
Reversed(S) ==
    [S EXCEPT !.circuits = [i \in DOMAIN @ |-> @[Len(@) + 1 - i]]]

\* C22: the result of calculate does not depend on the order of the circuits:
\* with the circuits in the opposite order it ends the same way, every
\* conduit gets the same wires with the same currents, and every switch gets
\* the same rated current, the one its own circuit computed.
C22_CircuitOrderIrrelevant ==
    Len(circuits) > 1 =>
        \A A \in {calculate(Sys, build_graph(Sys))} :
        \A B \in {calculate(Reversed(Sys), build_graph(Sys))} :
            /\ A.err = B.err
            /\ \A i \in DOMAIN conduits :
                   /\ Range(A.S.conduits[i].wires) = Range(B.S.conduits[i].wires)
                   /\ Len(A.S.conduits[i].wires) = Len(B.S.conduits[i].wires)
            /\ A.S.nodes = B.S.nodes

\* Two circuits have been calculated without error, and a switch has a load
C22_TwoCircuitsCalculated ==
    /\ last.op = "calculate" /\ last.error = None
    /\ Len(circuits) > 1
    /\ \E c \in Values(conduits) : WireCurrent(c, L_CONTROL, c.circuit_id) > 0


\* The switches of an allowed set that have a conduit path to the box inside it
ReachableSwitches(S, sc) ==
    LET D == DistancesTo(Subgraph(build_graph(S), sc.allowed \cup {sc.dbid}), sc.dbid)
    IN {n.id : n \in {m \in Values(S.nodes) :
                        m.node_type = SWITCH /\ m.id \in sc.allowed /\ HasPath(D, m.id)}}

\* C23: after a calculation that ended without error, every switch of an
\* allowed set that has a conduit path to the box inside the allowed set is
\* joined to the box by conduits that each carry a Power wire of the circuit;
\* a switch behind another switch is joined through it.
C23_SwitchesPowered ==
    (last.op = "calculate" /\ last.error = None) =>
        \A sc \in Scopes(Sys) :
            \A D \in {DistancesTo(build_wire_graph(Sys, L_POWER, sc.tag), sc.dbid)} :
                \A sw \in ReachableSwitches(Sys, sc) : HasPath(D, sw)

\* The second switch has its Power wire from the first switch, which has its
\* own from the box
C23_DaisyChained ==
    /\ last.op = "calculate" /\ last.error = None
    /\ Has(nodes, "SW2")
    /\ \E c \in Values(conduits) : Ends(c) = {"SW1", "SW2"} /\ HasWire(c, L_POWER, "CT1")
    /\ \E c \in Values(conduits) : Ends(c) = {"DB1", "SW1"} /\ HasWire(c, L_POWER, "CT1")


\* The number of wires of a type and a circuit in a conduit
WireCount(c, wire_type, circuit_id) ==
    Cardinality({j \in DOMAIN c.wires :
                    c.wires[j].wire_type = wire_type /\ c.wires[j].circuit_id = circuit_id})

\* Both ends of the conduit are nodes of the allowed set and none is a switch
TakesBaseWires(S, c, allowed) ==
    /\ IsNode(S, c.start_node_id) /\ IsNode(S, c.end_node_id)
    /\ ~IsSwitch(S, c.start_node_id) /\ ~IsSwitch(S, c.end_node_id)
    /\ c.start_node_id \in allowed /\ c.end_node_id \in allowed

\* C24: after a calculation that ended without error, so that Step 1 ran for
\* every circuit, a conduit carries exactly one Neutral and one PE wire of a
\* circuit if both its ends are in the circuit's allowed set and none is a
\* switch, and no Neutral and no PE wire of that circuit otherwise.
C24_BaseWires ==
    (last.op = "calculate" /\ last.error = None) =>
        \A sc \in Scopes(Sys), c \in Values(conduits) :
            \A n \in {IF TakesBaseWires(Sys, c, sc.allowed) THEN 1 ELSE 0} :
                /\ WireCount(c, WT_N, sc.tag) = n
                /\ WireCount(c, WT_PE, sc.tag) = n

\* A calculation has laid Neutral and PE on one conduit of a circuit and none
\* on a conduit of the circuit that ends at a switch
C24_BaseWiresLaid ==
    /\ last.op = "calculate" /\ last.error = None
    /\ \E sc \in Scopes(Sys), c, d \in Values(conduits) :
          /\ WireCount(c, WT_N, sc.tag) = 1 /\ WireCount(c, WT_PE, sc.tag) = 1
          /\ Ends(d) \subseteq sc.allowed
          /\ \E e \in Ends(d) : IsSwitch(Sys, e)
          /\ WireCount(d, WT_N, sc.tag) = 0

\* ---------------------------------------------------------------------
\* A calculator that is kept: WiringCalculator.__init__ builds the graph
\* once, and calculate works on the graph built then

\* id and endpoints of the conduits added while a calculator is kept
LatePairs == { <<"c_late_1", "SW1", "SW2">>, <<"c_late_2", "SK1", "LT1">> }

\* calculator = WiringCalculator(system): the graph of the system of now.
\* One calculator is followed: it is constructed, the drawing changes by
\* at most one removal and the additions of LatePairs, and it calculates.
NewCalculator ==
    /\ history.phase = "none"
    /\ history' = [phase |-> "held", result |-> build_graph(Sys), step3 |-> <<>>]
    /\ last' = Outcome("WiringCalculator", <<>>, None, 0)
    /\ Commit(Sys)

\* system.add_conduit(conduit) while the calculator is kept
LateAddConduit ==
    \E p \in LatePairs :
        /\ history.phase = "held"
        /\ last.op \in {"WiringCalculator", "remove_conduit"}
        /\ Has(nodes, p[2]) /\ Has(nodes, p[3])
        /\ ~Has(conduits, p[1])
        /\ Commit(add_conduit(Sys, Conduit(p[1], p[2], p[3], None)))
        /\ last' = Outcome("add_conduit", p, None, 0)
        /\ UNCHANGED history

\* system.remove_conduit(conduit_id) while the calculator is kept
LateRemoveConduit ==
    \E id \in Keys(conduits) :
        /\ history.phase = "held"
        /\ last.op = "WiringCalculator"
        /\ Commit(remove_conduit(Sys, id))
        /\ last' = Outcome("remove_conduit", <<id>>, None, 0)
        /\ UNCHANGED history

\* calculator.calculate() on the kept calculator: self.graph is the graph
\* of the construction.  The outcome of a calculator constructed for the
\* call is remembered next to it.
CalculateHeld ==
    /\ history.phase = "held"
    /\ \E r \in {calculate(Sys, history.result)} :
       \E f \in {calculate(Sys, build_graph(Sys))} :
          /\ Commit(r.S)
          /\ last' = Outcome("calculate", <<f.S.conduits, f.S.nodes, f.err>>, r.err, 0)
          /\ history' = [phase |-> "used", result |-> history.result, step3 |-> r.log]

NextHeld == NewCalculator \/ LateAddConduit \/ LateRemoveConduit \/ CalculateHeld

SpecHeld == InitScenario /\ [][NextHeld]_vars

\* C25: the result of calculate on a calculator constructed before nodes
\* or conduits were added or removed equals the result of a calculator
\* constructed just before the call: same wires on every conduit, same
\* nodes, same error.
C25_GraphOfTheCall ==
    (last.op = "calculate" /\ history.phase = "used")
        => /\ conduits = last.args[1]
           /\ nodes = last.args[2]
           /\ last.error = last.args[3]

\* a conduit was added after the construction and the calculation on the
\* kept calculator left the switch behind it without power
C25_StaleGraph ==
    /\ last.op = "calculate" /\ history.phase = "used"
    /\ Has(conduits, "c_late_1")
    /\ conduits # last.args[1]

----------------------------------------------------------------------------
(* The tree the topology generator lays for a circuit *)

\* The nodes reached from the nodes of seen over the edges es
RECURSIVE ReachedOver(_, _)
ReachedOver(es, seen) ==
    LET more == seen \cup UNION {e \in es : e \cap seen # {}}
    IN IF more = seen THEN seen ELSE ReachedOver(es, more)

\* es joins the nodes ns into one tree
IsSpanningTree(ns, es) ==
    /\ Cardinality(es) = Cardinality(ns) - 1
    /\ \A e \in es : e \subseteq ns /\ Cardinality(e) = 2
    /\ \A x \in ns : ReachedOver(es, {x}) = ns

\* The Euclidean length of the edges es, summed
TreeLength(S, es) ==
    SumOver([e \in es |-> LET u == CHOOSE x \in e : TRUE
                              v == CHOOSE x \in e : x # u
                          IN Hypot(Get(S.nodes, u), Get(S.nodes, v))], es)

\* The members of the circuit that are nodes and the box, without switches
TreeNodes(S, circuit) ==
    {nid \in Range(circuit.member_node_ids) \cup {circuit.distribution_box_id} :
        Has(S.nodes, nid) /\ Get(S.nodes, nid).node_type # SWITCH}

\* The conduits bound to the circuit, in the order they were laid
BoundTo(S, circuit_id) == SelectSeq(S.conduits, LAMBDA c : c.circuit_id = circuit_id)

\* C26: on a drawing without conduits, for each circuit with at least two
\* non-switch nodes (members and box) the first n-1 conduits generated
\* for the circuit join all those nodes into one tree, have no switch at
\* an end, are bound to the circuit, and no spanning tree of those nodes
\* is shorter; what is laid after them for the circuit ends at a switch.
C26_MinimumSpanningTree ==
    (last.op = "generate_mst_topology" /\ history.phase = "generated" /\ history.result = <<>>)
        => \A i \in DOMAIN circuits :
              LET ns == TreeNodes(Sys, circuits[i])
                  laid == BoundTo(Sys, circuits[i].id)
                  n == Cardinality(ns)
                  tree == {Ends(laid[k]) : k \in 1..(n - 1)}
              IN n >= 2 =>
                   /\ Len(laid) >= n - 1
                   /\ IsSpanningTree(ns, tree)
                   /\ \A k \in 1..(n - 1) : \A e \in Ends(laid[k]) : ~IsSwitch(Sys, e)
                   /\ \A k \in n..Len(laid) : \E e \in Ends(laid[k]) : IsSwitch(Sys, e)
                   /\ \A es \in SUBSET {{x, y} : x, y \in ns} :
                         IsSpanningTree(ns, es) => TreeLength(Sys, tree) <= TreeLength(Sys, es)

\* the generator has laid a tree over three nodes of which another
\* spanning tree is longer
C26_TreeGenerated ==
    /\ last.op = "generate_mst_topology" /\ history.phase = "generated" /\ history.result = <<>>
    /\ \E i \in DOMAIN circuits :
          LET ns == TreeNodes(Sys, circuits[i])
              laid == BoundTo(Sys, circuits[i].id)
          IN /\ Cardinality(ns) = 3
             /\ Len(laid) >= 2
             /\ \E es \in SUBSET {{x, y} : x, y \in ns} :
                   /\ IsSpanningTree(ns, es)
                   /\ TreeLength(Sys, es) > TreeLength(Sys, {Ends(laid[1]), Ends(laid[2])})

----------------------------------------------------------------------------
(* Switches Step 4 cannot reach *)

\* The switches of an allowed set without a conduit path to the box inside it
StrandedSwitches(S, sc) ==
    {n.id : n \in {m \in Values(S.nodes) : m.node_type = SWITCH /\ m.id \in sc.allowed}}
        \ ReachableSwitches(S, sc)

----------------------------------------------------------------------------
(* What a calculation leaves alone *)

\* A node without its rated current
Placed(n) == [id |-> n.id, node_type |-> n.node_type, x |-> n.x, y |-> n.y]

\* A conduit without its wires and its circuit binding
Routed(c) == [id |-> c.id, start_node_id |-> c.start_node_id,
              end_node_id |-> c.end_node_id, length |-> c.length]

\* The rated currents of the switches outside the allowed set, in a list of nodes
SwitchesOutside(ns, allowed) ==
    {<<ns[i].id, ns[i].rated_current>> : i \in {j \in DOMAIN ns :
                                                  ns[j].node_type = SWITCH /\ ns[j].id \notin allowed}}

\* C28: a calculation changes only the wire lists and circuit bindings of
\* conduits and the rated current of switches: the nodes, conduits, units
\* and circuits are the same sets, adj, the ends and lengths of the conduits
\* and the rated currents of the other nodes are as before; and Step 3 of a
\* circuit leaves the rated current of the switches outside its allowed set
\* as it found it.
C28_CalculateFrame ==
    [][last'.op = "calculate" =>
          /\ units' = units /\ circuits' = circuits /\ adj' = adj
          /\ distribution_box_id' = distribution_box_id
          /\ distribution_box_ids' = distribution_box_ids
          /\ [i \in DOMAIN nodes' |-> Placed(nodes'[i])] = [i \in DOMAIN nodes |-> Placed(nodes[i])]
          /\ \A i \in DOMAIN nodes :
                nodes[i].node_type # SWITCH => nodes'[i].rated_current = nodes[i].rated_current
          /\ [i \in DOMAIN conduits' |-> Routed(conduits'[i])]
                = [i \in DOMAIN conduits |-> Routed(conduits[i])]
          /\ \A k \in DOMAIN history'.step3 :
                SwitchesOutside(history'.step3[k].nodes, history'.step3[k].allowed)
                  = SwitchesOutside(IF k = 1 THEN nodes ELSE history'.step3[k - 1].nodes,
                                    history'.step3[k].allowed)]_vars

\* two circuits were calculated and Step 3 of the second one has found the
\* switch of the first one with a load
C28_SwitchOfAnotherCircuit ==
    /\ last.op = "calculate" /\ last.error = None
    /\ Len(history.step3) = 2
    /\ \E p \in SwitchesOutside(history.step3[1].nodes, history.step3[2].allowed) : p[2] > 0

----------------------------------------------------------------------------
(* The Power wires of an uncontrolled unit at the box, after Step 2 *)

\* The circuit calculate takes first: its box, its tag and its allowed set
FirstScope(S) ==
    IF S.circuits = <<>>
    THEN [dbid |-> DistBoxes(S)[1], tag |-> FallbackTag(DistBoxes(S)[1]),
          allowed |-> {DistBoxes(S)[1]} \cup Keys(S.nodes)]
    ELSE [dbid |-> S.circuits[1].distribution_box_id, tag |-> S.circuits[1].id,
          allowed |-> Range(S.circuits[1].member_node_ids) \cup {S.circuits[1].distribution_box_id}]

\* The system after Steps 1 and 2 of the first circuit of a calculation on S
AfterStep2(S) ==
    LET G == build_graph(S)
        sc == FirstScope(S)
    IN step2_lay_uncontrolled_power(
           step1_lay_base_circuit(Running(clear_wires(S)), G, sc.dbid, sc.tag, sc.allowed),
           G, sc.dbid, sc.tag, sc.allowed)

\* The currents of the unit's own wires of a type in a conduit, summed
UnitWireCurrent(c, wire_type, unit_id, circuit_id) ==
    SumSeq([j \in DOMAIN c.wires |->
              IF /\ c.wires[j].wire_type = wire_type
                 /\ c.wires[j].unit_id = unit_id
                 /\ c.wires[j].circuit_id = circuit_id
              THEN c.wires[j].current ELSE 0],
           Len(c.wires))

\* The uncontrolled units of S whose members are all in the allowed set and
\* all have a conduit path to the box inside it
FedUnits(S, sc) ==
    LET D == DistancesTo(Subgraph(build_graph(S), sc.allowed), sc.dbid)
    IN {u \in Values(S.units) :
          /\ u.unit_type = UNCONTROLLED
          /\ u.member_node_ids # <<>>
          /\ \A mid \in Range(u.member_node_ids) : mid \in sc.allowed /\ HasPath(D, mid)}

\* The currents of the unit's Power wires on the conduits at the box, summed
PowerAtBox(S, sc, u) ==
    SumSeq([i \in DOMAIN S.conduits |->
              IF sc.dbid \in Ends(S.conduits[i])
              THEN UnitWireCurrent(S.conduits[i], L_POWER, u.id, sc.tag) ELSE 0],
           Len(S.conduits))

\* The rated currents of the members of the unit, summed
UnitLoad(S, u) ==
    SumSeq([k \in DOMAIN u.member_node_ids |-> Get(S.nodes, u.member_node_ids[k]).rated_current],
           Len(u.member_node_ids))

\* C29: after Step 2 of the circuit a calculation takes first, for every
\* uncontrolled unit whose members are all in the allowed set and all have
\* a conduit path to the box inside it, the currents of the unit's own Power
\* wires on the conduits at the box sum to the rated currents of its members.
C29_UnitPowerAtBox ==
    [][(last'.op = "calculate" /\ (circuits # <<>> \/ DistBoxes(Sys) # <<>>)) =>
          \A st \in {AfterStep2(Sys)} :
             ~Failed(st) =>
                \A u \in FedUnits(Sys, FirstScope(Sys)) :
                   PowerAtBox(st.S, FirstScope(Sys), u) = UnitLoad(Sys, u)]_vars

\* a calculation has ended on a circuit with an uncontrolled unit of two
\* members that both have their path to the box, with the unit's Power
\* wire at the box
C29_UnitFedAtBox ==
    /\ last.op = "calculate" /\ last.error = None
    /\ circuits # <<>>
    /\ \E u \in FedUnits(Sys, FirstScope(Sys)) :
          /\ Len(u.member_node_ids) = 2
          /\ \E c \in Values(conduits) :
                /\ FirstScope(Sys).dbid \in Ends(c)
                /\ UnitWireCurrent(c, L_POWER, u.id, FirstScope(Sys).tag) > 0

----------------------------------------------------------------------------
(* The list of distribution boxes *)

\* C30: every id in distribution_box_ids is the id of a node of type
\* distribution box and is listed once, and distribution_box_id is None or
\* one of those ids.
C30_BoxListMatchesNodes ==
    /\ \A i \in DOMAIN distribution_box_ids :
          /\ Has(nodes, distribution_box_ids[i])
          /\ Get(nodes, distribution_box_ids[i]).node_type = DISTRIBUTION_BOX
          /\ \A j \in DOMAIN distribution_box_ids : distribution_box_ids[j] = distribution_box_ids[i] => j = i
    /\ distribution_box_id \in {None} \cup Range(distribution_box_ids)

\* a distribution box was removed and its id is still listed
C30_RemovedBoxListed ==
    /\ last.op = "remove_node" /\ ~last.raised
    /\ \E i \in DOMAIN distribution_box_ids : ~Has(nodes, distribution_box_ids[i])

====
